---- MODULE Spec2Model ----
(***************************************************************************)
(* A model of the AlgoBuddy-AgentX trading services.                       *)
(*                                                                         *)
(*   AI service : RiskManagerAgent, StrategyService and the /execute-trade *)
(*                handler (SpecRisk, SpecTrade); BacktestAgent             *)
(*                (SpecBacktest); EvaluatorAgent (SpecEval);               *)
(*                StrategyGeneratorAgent (SpecGenerator); StrategyService  *)
(*                on its own (SpecService); concurrent /execute-trade      *)
(*                requests on the event loop (SpecConcurrent).             *)
(*   Backend    : the strategy / trade / portfolio route handlers over the *)
(*                relational store (SpecBackend); the /market-data handler *)
(*                over the zerodha_data table (SpecMarketData).            *)
(*                                                                         *)
(* Money and prices are integers.  The Python code computes with floats;   *)
(* every ratio test of the code (a / b <= 0.1 and the like) is modelled by *)
(* the exact cross-multiplied comparison, which agrees with the float test *)
(* on the values the model draws.  Quotients that are stored (average      *)
(* prices, percentages) are kept as reduced fractions [num, den].          *)
(***************************************************************************)
EXTENDS Integers, Sequences, FiniteSets, TLC

VARIABLES
    \* ---- AI service: risk manager, strategy service, /execute-trade ----
    risk_manager,       \* RiskManagerAgent: portfolio_value, positions, daily_pnl, max_portfolio_value
    strategy_service,   \* StrategyService: trade_history, portfolio
    op,                 \* the operation that ran last
    request,            \* its arguments
    risk_check,         \* the check_risk result of the last operation, if it made one
    response,           \* the response of the last operation, if it was a request
    calls,              \* the agent calls the last operation made, in order
    \* ---- AI service: BacktestAgent.run_backtest ----
    bt_pc,              \* where run_backtest is
    initial_capital,    \* argument of run_backtest
    strategy_code,      \* argument of run_backtest: what exec() of the text does
    queried,            \* _get_historical_data: the sources queried so far
    errors,             \* _get_historical_data: the per-source errors so far
    data,               \* the close prices of the downloaded rows
    bt_i,               \* _execute_backtest: the loop index i, as the number of rows done
    capital,            \* _execute_backtest: cash
    position,           \* _execute_backtest: shares held
    trades,             \* _execute_backtest: the recorded trades
    equity_curve,       \* _execute_backtest: one point per evaluated row
    strategy_result,    \* _execute_backtest: what strategy_func did on the last row
    result,             \* what run_backtest returned
    \* ---- AI service: EvaluatorAgent.evaluate_strategy ----
    metrics,            \* backtest_results["performance_metrics"], values in hundredths
    evaluation,         \* what evaluate_strategy returned
    \* ---- Backend ----
    db,                 \* the tables: strategies, trades, portfolios
    http,               \* the response to the last backend request
    \* ---- AI service: StrategyGeneratorAgent ----
    strategy_generator, \* StrategyGeneratorAgent: use_openai
    generated,          \* the last generate_strategy call: arguments, AI outcome, returned text
    generated_before,   \* the generate_strategy call before the last one
    \* ---- AI service: /execute-trade requests in flight ----
    inflight,           \* per request: the arguments, where its handler is, its response
    trade_result,       \* what StrategyService.execute_trade returned when called on its own
    \* ---- backend: market data (api/zerodha.py) ----
    zerodha_data,       \* the rows of the zerodha_data table, in the order of their ids
    market              \* the last /market-data request, its response and the client calls it made

riskVars == <<risk_manager, strategy_service, op, request, risk_check, response, calls>>

btVars == <<bt_pc, initial_capital, strategy_code, queried, errors, data, bt_i, capital,
            position, trades, equity_curve, strategy_result, result>>

evVars == <<metrics, evaluation>>

beVars == <<db, http>>

genVars == <<strategy_generator, generated, generated_before>>

mdVars == <<zerodha_data, market>>

vars == <<riskVars, btVars, evVars, beVars, genVars, inflight, trade_result, mdVars>>

-----------------------------------------------------------------------------
(* Bounds *)

\* the largest number of approved risk checks / recorded trades explored
MaxTrades == 2

\* the largest number of rows of historical data explored
MaxRows == 22

\* the largest number of database rows created, over all tables
MaxRecords == 2

\* the largest number of /execute-trade requests in flight together
MaxRequests == 3

\* the largest number of risk manager calls behind a state of RiskStates
RiskDepth == 2

\* the largest number of trades StrategyService records when called on its own
MaxServiceTrades == 3

\* the days that /market-data requests range over are 1..MaxDay
MaxDay == 3

-----------------------------------------------------------------------------
(* Arithmetic helpers *)

Abs(x) == IF x < 0 THEN -x ELSE x

Max(a, b) == IF a >= b THEN a ELSE b

Min(a, b) == IF a <= b THEN a ELSE b

RECURSIVE GCD(_, _)
GCD(a, b) == IF b = 0 THEN a ELSE GCD(b, a % b)

\* the fraction n / d (d # 0) in lowest terms with a positive denominator
Frac(n, d) ==
    LET g == GCD(Abs(n), Abs(d))
        s == IF d < 0 THEN -1 ELSE 1
    IN  [num |-> s * (n \div g), den |-> s * (d \div g)]

Zero == [num |-> 0, den |-> 1]

\* a / b <= n / d   for b # 0 and d > 0
LeqRatio(a, b, n, d) == IF b > 0 THEN a * d <= n * b ELSE a * d >= n * b

\* a / b >= n / d   for b # 0 and d > 0
GeqRatio(a, b, n, d) == IF b > 0 THEN a * d >= n * b ELSE a * d <= n * b

\* Python's int(): truncation towards zero of n / d, d > 0
Trunc(n, d) == IF n >= 0 THEN n \div d ELSE -((-n) \div d)

\* Python's dict.get(key, default)
Get(dict, key, default) == IF key \in DOMAIN dict THEN dict[key] ELSE default

-----------------------------------------------------------------------------
(* RiskManagerAgent  (AI_service/agents/risk_manager.py) *)

\* the limits are percentages: 0.1, 0.02, 0.05, 0.15, 0.02 in the code
max_position_size_pct == 10
max_portfolio_risk_pct == 2
max_daily_loss_pct == 5
max_drawdown_pct == 15
stop_loss_pct == 2

RiskInitialValue == 100000

\* RiskManagerAgent._get_current_price: the mock price table, 100.0 otherwise
RiskCurrentPrice(symbol) ==
    CASE symbol = "AAPL"  -> 150
      [] symbol = "GOOGL" -> 2800
      [] symbol = "MSFT"  -> 300
      [] symbol = "TSLA"  -> 250
      [] symbol = "AMZN"  -> 3300
      [] OTHER            -> 100

CheckNames == <<"position_size", "portfolio_risk", "daily_loss", "drawdown", "exposure">>

\* _check_position_size: position_risk = trade_value / portfolio_value <= 0.1
check_position_size(rm, trade_value) ==
    IF LeqRatio(trade_value, rm.portfolio_value, max_position_size_pct, 100)
    THEN [approved |-> TRUE,  message |-> "within limit"]
    ELSE [approved |-> FALSE, message |-> "exceeds limit"]

\* (a variant with a stop loss of 50% in place of stop_loss_pct)
check_portfolio_risk_wide_stop(rm, trade_value) ==
    IF LeqRatio(trade_value * 50, rm.portfolio_value * 100, max_portfolio_risk_pct, 100)
    THEN [approved |-> TRUE,  message |-> "within limit"]
    ELSE [approved |-> FALSE, message |-> "exceeds limit"]

\* _check_portfolio_risk: trade_value * 0.02 / portfolio_value <= 0.02
check_portfolio_risk(rm, trade_value) ==
    IF LeqRatio(trade_value * stop_loss_pct, rm.portfolio_value * 100, max_portfolio_risk_pct, 100)
    THEN [approved |-> TRUE,  message |-> "within limit"]
    ELSE [approved |-> FALSE, message |-> "exceeds limit"]

\* _check_daily_loss_limit: daily_pnl / portfolio_value >= -0.05
check_daily_loss_limit(rm) ==
    IF GeqRatio(rm.daily_pnl, rm.portfolio_value, -max_daily_loss_pct, 100)
    THEN [approved |-> TRUE,  message |-> "within limit"]
    ELSE [approved |-> FALSE, message |-> "exceeds limit"]

\* _check_drawdown_limit: (max_portfolio_value - portfolio_value) / max_portfolio_value <= 0.15
check_drawdown_limit(rm) ==
    IF LeqRatio(rm.max_portfolio_value - rm.portfolio_value, rm.max_portfolio_value,
                max_drawdown_pct, 100)
    THEN [approved |-> TRUE,  message |-> "within limit"]
    ELSE [approved |-> FALSE, message |-> "exceeds limit"]

\* _check_total_exposure: (positions[symbol].value + trade_value) / portfolio_value <= 0.1 * 2
check_total_exposure(rm, symbol, trade_value) ==
    LET current_exposure == IF symbol \in DOMAIN rm.positions
                            THEN rm.positions[symbol].value ELSE 0
        total_exposure == current_exposure + trade_value
    IN  IF LeqRatio(total_exposure, rm.portfolio_value, max_position_size_pct * 2, 100)
        THEN [approved |-> TRUE,  message |-> "within limit"]
        ELSE [approved |-> FALSE, message |-> "exceeds limit"]

\* the dictionary of the five checks that check_risk builds
RiskChecks(rm, symbol, trade_value) ==
    [position_size  |-> check_position_size(rm, trade_value),
     portfolio_risk |-> check_portfolio_risk(rm, trade_value),
     daily_loss     |-> check_daily_loss_limit(rm),
     drawdown       |-> check_drawdown_limit(rm),
     exposure       |-> check_total_exposure(rm, symbol, trade_value)]

\* (a variant that approves as soon as one check passes)
AllChecksPassedAny(checks) == \E i \in 1..Len(CheckNames) : checks[CheckNames[i]].approved

\* all(check["approved"] for check in checks.values())
AllChecksPassed(checks) == \A i \in 1..Len(CheckNames) : checks[CheckNames[i]].approved

\* [name for name, check in checks.items() if not check["approved"]]
FailedChecks(checks) == SelectSeq(CheckNames, LAMBDA n : ~checks[n].approved)

\* _update_position: the tracked position of the symbol after an approved trade
update_position(rm, symbol, quantity, price, strategy_id) ==
    LET old == IF symbol \in DOMAIN rm.positions THEN rm.positions[symbol]
               ELSE [quantity |-> 0, avg_price |-> Zero, value |-> 0, strategies |-> <<>>]
        new_quantity == old.quantity + quantity
        new_avg_price ==
            IF new_quantity # 0
            THEN Frac(old.quantity * old.avg_price.num + quantity * price * old.avg_price.den,
                      old.avg_price.den * new_quantity)
            ELSE Zero
        new == [quantity   |-> new_quantity,
                avg_price  |-> new_avg_price,
                value      |-> new_quantity * price,
                strategies |-> Append(old.strategies, strategy_id)]
    IN  [rm EXCEPT !.positions =
            [s \in DOMAIN rm.positions \cup {symbol} |->
                IF s = symbol THEN new ELSE rm.positions[s]]]

\* (a variant that takes the new value as the peak)
update_portfolio_value_reset_peak(rm, new_value) ==
    [rm EXCEPT !.portfolio_value = new_value, !.max_portfolio_value = new_value]

\* update_portfolio_value (lines 248-251)
update_portfolio_value(rm, new_value) ==
    [rm EXCEPT !.portfolio_value = new_value,
               !.max_portfolio_value = Max(rm.max_portfolio_value, new_value)]

\* check_risk: the result and the risk manager afterwards.  price = 0 stands
\* for price=None (the mock price is looked up).  A zero portfolio_value makes
\* the division on line 38 raise; the handler on line 73 turns it into a result.
check_risk(rm, strategy_id, symbol, quantity, price_arg) ==
    LET price == IF price_arg = 0 THEN RiskCurrentPrice(symbol) ELSE price_arg
        trade_value == quantity * price
        checks == RiskChecks(rm, symbol, trade_value)
    IN  IF rm.portfolio_value = 0
        THEN [result |-> [approved |-> FALSE,
                          reason   |-> [text |-> "Risk check error", failed |-> <<>>],
                          error    |-> "division by zero"],
              self   |-> rm]
        ELSE IF AllChecksPassed(checks)
        THEN [result |-> [approved      |-> TRUE,
                          reason        |-> [text |-> "All risk checks passed", failed |-> <<>>],
                          checks        |-> checks,
                          position_risk |-> Frac(trade_value, rm.portfolio_value),
                          trade_value   |-> trade_value],
              self   |-> update_position(rm, symbol, quantity, price, strategy_id)]
        ELSE [result |-> [approved      |-> FALSE,
                          reason        |-> [text |-> "Failed risk checks",
                                             failed |-> FailedChecks(checks)],
                          checks        |-> checks,
                          position_risk |-> Frac(trade_value, rm.portfolio_value),
                          trade_value   |-> trade_value],
              self   |-> rm]

-----------------------------------------------------------------------------
(* StrategyService  (AI_service/services/strategy_service.py) *)

ServiceInitialCash == 100000

\* StrategyService._get_market_price: the mock price table, 100.0 otherwise
ServiceMarketPrice(symbol) ==
    CASE symbol = "AAPL"  -> 150
      [] symbol = "GOOGL" -> 2800
      [] symbol = "MSFT"  -> 300
      [] symbol = "TSLA"  -> 250
      [] symbol = "AMZN"  -> 3300
      [] symbol = "NFLX"  -> 500
      [] symbol = "META"  -> 350
      [] symbol = "NVDA"  -> 800
      [] OTHER            -> 100

RECURSIVE PositionsValue(_, _)
\* the sum of quantity * price over the positions of syms with quantity > 0
PositionsValue(positions, syms) ==
    IF syms = {} THEN 0
    ELSE LET s == CHOOSE x \in syms : TRUE
         IN  (IF positions[s].quantity > 0
              THEN positions[s].quantity * ServiceMarketPrice(s) ELSE 0)
             + PositionsValue(positions, syms \ {s})

\* _update_portfolio_value: total_value = cash + value of the held positions
service_update_portfolio_value(portfolio) ==
    [portfolio EXCEPT !.total_value =
        portfolio.cash + PositionsValue(portfolio.positions, DOMAIN portfolio.positions)]

\* _get_portfolio_summary
portfolio_summary(ss) ==
    [cash         |-> ss.portfolio.cash,
     total_value  |-> ss.portfolio.total_value,
     positions    |-> Cardinality({s \in DOMAIN ss.portfolio.positions :
                                      ss.portfolio.positions[s].quantity > 0}),
     total_trades |-> Len(ss.trade_history)]

\* lines 84-107: record the trade, refresh total_value, answer 'success'.
\* trade_id is a uuid4 in the code; the model numbers the recorded trades.
RecordTrade(ss, portfolio, strategy_id, symbol, quantity, order_type) ==
    LET current_price == ServiceMarketPrice(symbol)
        trade_record == [trade_id    |-> Len(ss.trade_history) + 1,
                         strategy_id |-> strategy_id,
                         symbol      |-> symbol,
                         quantity    |-> quantity,
                         price       |-> current_price,
                         order_type  |-> order_type,
                         trade_value |-> quantity * current_price,
                         status      |-> "executed"]
        after == [trade_history |-> Append(ss.trade_history, trade_record),
                  portfolio     |-> service_update_portfolio_value(portfolio)]
    IN  [result |-> [status            |-> "success",
                     trade_id          |-> trade_record.trade_id,
                     trade_details     |-> trade_record,
                     portfolio_summary |-> portfolio_summary(after)],
         self   |-> after]

\* (a variant that tests the cash of a SELL instead of a BUY)
insufficient_cash_on_sell(order_type, trade_value, cash) ==
    order_type = "SELL" /\ trade_value > cash

\* line 35: if order_type == "BUY" and trade_value > self.portfolio["cash"]
insufficient_cash(order_type, trade_value, cash) ==
    order_type = "BUY" /\ trade_value > cash

\* (a variant that tests only whether the symbol is held)
insufficient_shares_unheld_only(positions, symbol, quantity) ==
    symbol \notin DOMAIN positions

\* line 68: symbol not in positions or positions[symbol]["quantity"] < quantity
insufficient_shares(positions, symbol, quantity) ==
    symbol \notin DOMAIN positions \/ positions[symbol].quantity < quantity

\* StrategyService.execute_trade: the result and the service afterwards
service_execute_trade(ss, strategy_id, symbol, quantity, order_type) ==
    LET current_price == ServiceMarketPrice(symbol)
        trade_value == quantity * current_price
        pf == ss.portfolio
        held == symbol \in DOMAIN pf.positions
    IN  IF insufficient_cash(order_type, trade_value, pf.cash)
        THEN [result |-> [status |-> "failed", reason |-> "Insufficient cash",
                          required |-> trade_value, available |-> pf.cash],
              self   |-> ss]
        ELSE IF order_type = "BUY"
        THEN LET old == IF held THEN pf.positions[symbol]
                        ELSE [quantity |-> 0, avg_price |-> Zero, total_cost |-> Zero]
                 \* line 46-51: a missing position is created before the division
                 created == [s \in DOMAIN pf.positions \cup {symbol} |->
                                IF s = symbol THEN old ELSE pf.positions[s]]
                 new_quantity == old.quantity + quantity
             IN  IF new_quantity = 0
                 THEN \* line 58 divides by zero; line 109 answers 'error'
                      [result |-> [status |-> "error", error |-> "division by zero",
                                   trade_id |-> 0],
                       self   |-> [ss EXCEPT !.portfolio.positions = created]]
                 ELSE LET new_avg_price ==
                              Frac(old.quantity * old.avg_price.num
                                     + quantity * current_price * old.avg_price.den,
                                   old.avg_price.den * new_quantity)
                          new == [quantity   |-> new_quantity,
                                  avg_price  |-> new_avg_price,
                                  total_cost |-> Frac(new_quantity * new_avg_price.num,
                                                      new_avg_price.den)]
                          bought == [pf EXCEPT
                                       !.positions = [created EXCEPT ![symbol] = new],
                                       !.cash = pf.cash - trade_value]
                      IN  RecordTrade(ss, bought, strategy_id, symbol, quantity, order_type)
        ELSE IF order_type = "SELL"
        THEN IF insufficient_shares(pf.positions, symbol, quantity)
             THEN [result |-> [status |-> "failed", reason |-> "Insufficient shares to sell",
                               requested |-> quantity,
                               available |-> IF held THEN pf.positions[symbol].quantity ELSE 0],
                   self   |-> ss]
             ELSE LET left == pf.positions[symbol].quantity - quantity
                      kept == IF left = 0
                              THEN [s \in DOMAIN pf.positions \ {symbol} |-> pf.positions[s]]
                              ELSE [pf.positions EXCEPT ![symbol].quantity = left]
                      sold == [pf EXCEPT !.positions = kept, !.cash = pf.cash + trade_value]
                  IN  RecordTrade(ss, sold, strategy_id, symbol, quantity, order_type)
        ELSE \* any other order type (the request default is "MARKET") moves nothing
             RecordTrade(ss, pf, strategy_id, symbol, quantity, order_type)

-----------------------------------------------------------------------------
(* The AI service  (AI_service/main.py) *)

StrategyIds == {"s1"}
Symbols == {"AAPL", "NFLX"}
Quantities == {10, 66, 67, 700}
OrderTypes == {"MARKET", "BUY", "SELL"}
\* prices handed to check_risk when it is called directly; 0 is price=None
PriceArgs == {0, 200}
PortfolioValues == {0, 84000, 100000, 120000}
DailyPnls == {-6000, -5000}

NoResult == [approved |-> FALSE, reason |-> [text |-> "none", failed |-> <<>>]]
NoResponse == [status |-> "none"]
NoRequest == [strategy_id |-> "s1", symbol |-> "AAPL", quantity |-> 0,
              price |-> 0, order_type |-> "MARKET"]

\* the number of approved risk checks so far: every approval appends to 'strategies'
RECURSIVE Approvals(_, _)
Approvals(positions, syms) ==
    IF syms = {} THEN 0
    ELSE LET s == CHOOSE x \in syms : TRUE
         IN  Len(positions[s].strategies) + Approvals(positions, syms \ {s})

RiskStart ==
    /\ risk_manager = [portfolio_value     |-> RiskInitialValue,
                       positions           |-> << >>,
                       daily_pnl           |-> 0,
                       max_portfolio_value |-> RiskInitialValue]
    /\ strategy_service = [trade_history |-> << >>,
                           portfolio     |-> [cash        |-> ServiceInitialCash,
                                              positions   |-> << >>,
                                              total_value |-> ServiceInitialCash]]
    /\ op = "init"
    /\ request = NoRequest
    /\ risk_check = NoResult
    /\ response = NoResponse
    /\ calls = << >>

\* (a variant of the handler without the early return on a rejected check)
ExecuteTradeHandlerNoGate(req) ==
    LET rc == check_risk(risk_manager, req.strategy_id, req.symbol, req.quantity, 0)
        tr == service_execute_trade(strategy_service, req.strategy_id, req.symbol,
                                    req.quantity, req.order_type)
    IN  /\ op' = "/execute-trade"
        /\ request' = req
        /\ risk_check' = rc.result
        /\ risk_manager' = rc.self
        /\ strategy_service' = tr.self
        /\ calls' = <<"check_risk", "execute_trade">>
        /\ response' = IF ~rc.result.approved
                       THEN [status |-> "rejected", reason |-> rc.result.reason,
                             message |-> "Trade rejected by risk manager"]
                       ELSE [status |-> "success", trade_result |-> tr.result,
                             message |-> "Trade executed successfully"]

\* POST /execute-trade (main.py execute_trade): check_risk, then, if approved,
\* StrategyService.execute_trade.  No await of the handler suspends (every
\* awaited coroutine runs to completion), so a request is one step.
ExecuteTradeHandler(req) ==
    LET rc == check_risk(risk_manager, req.strategy_id, req.symbol, req.quantity, 0)
    IN  /\ op' = "/execute-trade"
        /\ request' = req
        /\ risk_check' = rc.result
        /\ risk_manager' = rc.self
        /\ IF ~rc.result.approved
           THEN /\ response' = [status |-> "rejected", reason |-> rc.result.reason,
                                message |-> "Trade rejected by risk manager"]
                /\ calls' = <<"check_risk">>
                /\ UNCHANGED strategy_service
           ELSE LET tr == service_execute_trade(strategy_service, req.strategy_id,
                                                req.symbol, req.quantity, req.order_type)
                IN  /\ response' = [status |-> "success", trade_result |-> tr.result,
                                    message |-> "Trade executed successfully"]
                    /\ calls' = <<"check_risk", "execute_trade">>
                    /\ strategy_service' = tr.self

\* the model stops approving after MaxTrades approvals; rejections stay possible
WithinBound == Approvals(risk_manager'.positions, DOMAIN risk_manager'.positions) <= MaxTrades

ExecuteTrade ==
    \E sid \in StrategyIds, sym \in Symbols, q \in Quantities, ot \in OrderTypes :
        /\ ExecuteTradeHandler([strategy_id |-> sid, symbol |-> sym, quantity |-> q,
                                price |-> 0, order_type |-> ot])
        /\ WithinBound

\* RiskManagerAgent.check_risk called on its own, with or without a price
CheckRisk ==
    /\ \E sid \in StrategyIds, sym \in Symbols, q \in Quantities, p \in PriceArgs :
          LET rc == check_risk(risk_manager, sid, sym, q, p)
          IN  /\ op' = "check_risk"
              /\ request' = [strategy_id |-> sid, symbol |-> sym, quantity |-> q,
                             price |-> p, order_type |-> "MARKET"]
              /\ risk_check' = rc.result
              /\ risk_manager' = rc.self
              /\ calls' = <<"check_risk">>
              /\ response' = NoResponse
              /\ UNCHANGED strategy_service
              /\ WithinBound

\* RiskManagerAgent.update_portfolio_value
UpdatePortfolioValue ==
    \E new_value \in PortfolioValues :
        /\ risk_manager' = update_portfolio_value(risk_manager, new_value)
        /\ op' = "update_portfolio_value"
        /\ calls' = << >>
        /\ request' = NoRequest /\ risk_check' = NoResult /\ response' = NoResponse
        /\ UNCHANGED strategy_service

\* RiskManagerAgent.update_daily_pnl
UpdateDailyPnl ==
    \E pnl \in DailyPnls :
        /\ risk_manager' = [risk_manager EXCEPT !.daily_pnl = pnl]
        /\ op' = "update_daily_pnl"
        /\ calls' = << >>
        /\ request' = NoRequest /\ risk_check' = NoResult /\ response' = NoResponse
        /\ UNCHANGED strategy_service

\* RiskManagerAgent.reset_daily_limits
ResetDailyLimits ==
    /\ risk_manager' = [risk_manager EXCEPT !.daily_pnl = 0]
    /\ op' = "reset_daily_limits"
    /\ calls' = << >>
    /\ request' = NoRequest /\ risk_check' = NoResult /\ response' = NoResponse
    /\ UNCHANGED strategy_service

-----------------------------------------------------------------------------
(* BacktestAgent  (AI_service/agents/backtest_agent.py) *)

\* line 483: rows whose history prefix is shorter are skipped
MinRows == 20

\* line 499, 515: the confidence threshold 0.6, in hundredths
ConfidenceThreshold == 60

\* line 491: the default confidence 0.5, in hundredths
DefaultConfidence == 50

\* line 562: the confidence 1.0 of the closing SELL, in hundredths
FinalConfidence == 100

\* (a variant that tries the sources in the opposite order)
data_sources_reversed == <<"Alpha Vantage", "Yahoo Finance">>

\* lines 120-125: the data sources, in the order they are tried
data_sources == <<"Yahoo Finance", "Alpha Vantage">>

\* what a data source can do: raise, return an empty frame, return rows
\* without the required columns (_standardize_column_names raises), or succeed
SourceOutcomes == {"raises", "empty", "missing_columns", "ok"}

\* what exec(strategy_code) can do (_compile_strategy): raise an Exception
\* (a syntax error, say), run without defining trading_strategy, define it,
\* or raise SystemExit, which is not an Exception
StrategyCodes == {"raises", "no_trading_strategy", "defines_trading_strategy", "exits"}

InitialCapitals == {0, 1000}

\* close prices of the rows the strategy sees; earlier rows close at BasePrice
Prices == {80, 100}
BasePrice == 100

\* the numbers of rows a source returns
DataLengths == {1, MinRows - 1, MinRows, MaxRows}

\* the frames a source can return: close prices, by row
DataFrames ==
    UNION {{[r \in 1..n |-> IF r < MinRows THEN BasePrice ELSE tail[r - MinRows + 1]] :
               tail \in [1..Max(n - MinRows + 1, 0) -> Prices]} : n \in DataLengths}

\* what strategy_func returns on a row: a dictionary with some of the keys
\* signal, confidence (hundredths) and position_size
Signals == {"BUY", "SELL", "HOLD"}
Confidences == {60, 61}
PositionSizes == {50, 2000}

StrategyResults ==
    {[signal |-> s, confidence |-> c, position_size |-> z] :
        s \in Signals, c \in Confidences, z \in PositionSizes}
    \cup {[signal |-> s, confidence |-> c] : s \in Signals, c \in Confidences}
    \cup {[signal |-> s] : s \in Signals}
    \cup {[confidence |-> c] : c \in Confidences}

\* what a call of strategy_func can do: return a dictionary, return something
\* that has no .get, raise an Exception, or raise SystemExit
StrategyOutcomes == {"returns", "unreadable", "raises", "exits"}

NoResultYet == [status |-> "running"]

NotCalled == [outcome |-> "not called"]

BacktestStart ==
    /\ bt_pc = "download"
    /\ initial_capital \in InitialCapitals
    /\ strategy_code \in StrategyCodes
    /\ queried = << >>
    /\ errors = << >>
    /\ data = << >>
    /\ bt_i = 0
    /\ capital = 0
    /\ position = 0
    /\ trades = << >>
    /\ equity_curve = << >>
    /\ strategy_result = NotCalled
    /\ result = NoResultYet

\* run_backtest lines 60-64: an Exception becomes the failure result
FailedResult(message, details) ==
    [error |-> [message |-> message, details |-> details], status |-> "failed"]

\* one iteration of the loop of _get_historical_data (lines 128-144): the next
\* source is queried; its data is returned if it is not empty and standardizes,
\* otherwise its error is appended and the loop goes on.  run_backtest then
\* goes on to _compile_strategy; the locals of _get_historical_data are gone.
TrySource ==
    /\ bt_pc = "download"
    /\ Len(queried) < Len(data_sources)
    /\ LET source_name == data_sources[Len(queried) + 1]
       IN  \E outcome \in SourceOutcomes :
              /\ queried' = Append(queried, source_name)
              /\ IF outcome = "ok"
                 THEN /\ \E d \in DataFrames : data' = d
                      /\ bt_pc' = "compile"
                      /\ UNCHANGED errors
                 ELSE /\ errors' = Append(errors, [source |-> source_name, error |-> outcome])
                      /\ UNCHANGED <<bt_pc, data>>
    /\ UNCHANGED <<initial_capital, strategy_code, bt_i, capital, position, trades,
                   equity_curve, strategy_result, result>>

\* lines 146-152 and 60-64: every source failed; the ValueError that lists the
\* errors is re-raised as Exception and run_backtest returns the failure
AllSourcesFailed ==
    /\ bt_pc = "download"
    /\ Len(queried) = Len(data_sources)
    /\ result' = FailedResult("Failed to download data", errors)
    /\ bt_pc' = "done"
    /\ UNCHANGED <<initial_capital, strategy_code, queried, errors, data, bt_i, capital,
                   position, trades, equity_curve, strategy_result>>

\* _compile_strategy (lines 449-465), then lines 475-478 of _execute_backtest
CompileStrategy ==
    /\ bt_pc = "compile"
    /\ queried' = << >>
    /\ errors' = << >>
    /\ CASE strategy_code = "defines_trading_strategy" ->
              /\ bt_pc' = "loop"
              /\ capital' = initial_capital
              /\ position' = 0
              /\ trades' = << >>
              /\ equity_curve' = << >>
              /\ bt_i' = 0
              /\ UNCHANGED result
         [] strategy_code = "exits" ->
              \* SystemExit passes 'except Exception' on lines 464 and 60
              /\ bt_pc' = "propagated"
              /\ result' = [raised |-> "SystemExit"]
              /\ UNCHANGED <<bt_i, capital, position, trades, equity_curve>>
         [] OTHER ->
              /\ bt_pc' = "done"
              /\ result' = FailedResult("Failed to compile strategy", strategy_code)
              /\ UNCHANGED <<bt_i, capital, position, trades, equity_curve>>
    /\ UNCHANGED <<initial_capital, strategy_code, data, strategy_result>>

\* (a variant that reports the cash alone as the portfolio value)
EquityPointCashOnly(date, cap, pos, price) ==
    [date |-> date, portfolio_value |-> cap, capital |-> cap,
     position |-> pos, price |-> price]

\* lines 530-538: the equity point of a row
EquityPoint(date, cap, pos, price) ==
    [date |-> date, portfolio_value |-> cap + pos * price, capital |-> cap,
     position |-> pos, price |-> price]

\* (a variant that trades at a confidence of exactly 0.6 as well)
TradesOnRowAtThreshold(r, row, price) ==
    LET signal == Get(r, "signal", "HOLD")
        confidence == Get(r, "confidence", DefaultConfidence)
        shares == IF "position_size" \in DOMAIN r
                  THEN Trunc(r["position_size"], price)
                  ELSE Trunc(capital, 10 * price)
    IN  IF signal = "BUY" /\ position = 0 /\ confidence >= ConfidenceThreshold
        THEN IF shares > 0
             THEN [capital  |-> capital - shares * price,
                   position |-> shares,
                   trades   |-> Append(trades,
                                  [date |-> row, action |-> "BUY", shares |-> shares,
                                   price |-> price, cost |-> shares * price,
                                   confidence |-> confidence])]
             ELSE [capital |-> capital, position |-> position, trades |-> trades]
        ELSE IF signal = "SELL" /\ position > 0 /\ confidence >= ConfidenceThreshold
        THEN [capital  |-> capital + position * price,
              position |-> 0,
              trades   |-> Append(trades,
                             [date |-> row, action |-> "SELL", shares |-> position,
                              price |-> price, revenue |-> position * price,
                              confidence |-> confidence])]
        ELSE [capital |-> capital, position |-> position, trades |-> trades]

\* lines 490-528: what the strategy result r does to cash, position and trades
\* on the row with this close price.  position_size defaults to capital * 0.1;
\* shares = int(position_size / current_price).
TradesOnRow(r, row, price) ==
    LET signal == Get(r, "signal", "HOLD")
        confidence == Get(r, "confidence", DefaultConfidence)
        shares == IF "position_size" \in DOMAIN r
                  THEN Trunc(r["position_size"], price)
                  ELSE Trunc(capital, 10 * price)
    IN  IF signal = "BUY" /\ position = 0 /\ confidence > ConfidenceThreshold
        THEN IF shares > 0
             THEN [capital  |-> capital - shares * price,
                   position |-> shares,
                   trades   |-> Append(trades,
                                  [date |-> row, action |-> "BUY", shares |-> shares,
                                   price |-> price, cost |-> shares * price,
                                   confidence |-> confidence])]
             ELSE [capital |-> capital, position |-> position, trades |-> trades]
        ELSE IF signal = "SELL" /\ position > 0 /\ confidence > ConfidenceThreshold
        THEN [capital  |-> capital + position * price,
              position |-> 0,
              trades   |-> Append(trades,
                             [date |-> row, action |-> "SELL", shares |-> position,
                              price |-> price, revenue |-> position * price,
                              confidence |-> confidence])]
        ELSE [capital |-> capital, position |-> position, trades |-> trades]

\* one iteration of the loop of _execute_backtest (lines 480-548)
BacktestRow ==
    /\ bt_pc = "loop"
    /\ bt_i < Len(data)
    /\ bt_i' = bt_i + 1
    /\ IF bt_i + 1 < MinRows
       THEN \* line 483: too few rows for the indicators
            /\ strategy_result' = NotCalled
            /\ UNCHANGED <<bt_pc, capital, position, trades, equity_curve, result>>
       ELSE \E outcome \in StrategyOutcomes :
              CASE outcome = "returns" ->
                     \E r \in StrategyResults :
                        LET after == TradesOnRow(r, bt_i + 1, data[bt_i + 1])
                        IN  /\ strategy_result' = [outcome |-> outcome, value |-> r]
                            /\ capital' = after.capital
                            /\ position' = after.position
                            /\ trades' = after.trades
                            /\ equity_curve' =
                                  Append(equity_curve,
                                         EquityPoint(bt_i + 1, after.capital, after.position,
                                                     data[bt_i + 1]))
                            /\ UNCHANGED <<bt_pc, result>>
                [] outcome = "exits" ->
                     \* SystemExit passes 'except Exception' on lines 545 and 60
                     /\ strategy_result' = [outcome |-> outcome]
                     /\ bt_pc' = "propagated"
                     /\ result' = [raised |-> "SystemExit"]
                     /\ UNCHANGED <<capital, position, trades, equity_curve>>
                [] OTHER ->
                     \* lines 540-548: the row is skipped
                     /\ strategy_result' = [outcome |-> outcome]
                     /\ UNCHANGED <<bt_pc, capital, position, trades, equity_curve, result>>
    /\ UNCHANGED <<initial_capital, strategy_code, queried, errors, data>>

\* lines 550-563: the trades after a held position is closed at the last close
ClosedTrades ==
    IF position > 0
    THEN Append(trades, [date |-> Len(data), action |-> "SELL", shares |-> position,
                         price |-> data[Len(data)],
                         revenue |-> position * data[Len(data)],
                         confidence |-> FinalConfidence])
    ELSE trades

\* (a variant that does not add the revenue of the closing SELL)
FinalCapitalUnclosed == capital

\* lines 550-554, 565: the cash after a held position is closed
FinalCapital == IF position > 0 THEN capital + position * data[Len(data)] ELSE capital

\* line 621: [t for t in trades if t.get('revenue', 0) > t.get('cost', 0)]
ProfitableTrades(ts) ==
    {k \in 1..Len(ts) : Get(ts[k], "revenue", 0) > Get(ts[k], "cost", 0)}

\* _calculate_performance_metrics (lines 576-626).  volatility, sharpe_ratio
\* and max_drawdown are floating-point statistics of the equity returns; the
\* model records only that they are present.
PerformanceMetrics(total_return, final_capital, ts, curve) ==
    IF Len(curve) = 0
    THEN [error |-> "No equity curve data"]
    ELSE IF Len(curve) > 1
    THEN [total_return |-> total_return,
          final_value  |-> final_capital,
          total_trades |-> Len(ts),
          volatility   |-> "float", sharpe_ratio |-> "float", max_drawdown |-> "float",
          win_rate     |-> IF Len(ts) > 0
                           THEN Frac(Cardinality(ProfitableTrades(ts)) * 100, Len(ts))
                           ELSE Zero]
    ELSE [total_return |-> total_return,
          final_value  |-> final_capital,
          total_trades |-> Len(ts)]

\* the end of _execute_backtest (lines 550-574), _calculate_performance_metrics
\* and the return of run_backtest (lines 46-58).  initial_capital = 0 makes
\* line 566 divide by zero, which run_backtest answers with the failure.
FinishBacktest ==
    /\ bt_pc = "loop"
    /\ bt_i = Len(data)
    /\ bt_pc' = "done"
    /\ trades' = ClosedTrades
    /\ capital' = FinalCapital
    /\ IF initial_capital = 0
       THEN result' = FailedResult("float division by zero", << >>)
       ELSE LET total_return == Frac((FinalCapital - initial_capital) * 100, initial_capital)
            IN  result' = [symbol              |-> "AAPL",
                           initial_capital     |-> initial_capital,
                           final_capital       |-> FinalCapital,
                           total_return        |-> total_return,
                           performance_metrics |->
                               PerformanceMetrics(total_return, FinalCapital,
                                                  ClosedTrades, equity_curve),
                           trades              |-> ClosedTrades,
                           equity_curve        |-> equity_curve]
    /\ UNCHANGED <<initial_capital, strategy_code, queried, errors, data, bt_i, position,
                   equity_curve, strategy_result>>

-----------------------------------------------------------------------------
(* EvaluatorAgent  (AI_service/agents/evaluator_agent.py) *)

\* Metric values are in hundredths (total_return 5.0 is 500).  A score is in
\* units of 1/ScoreUnit of a point, which makes  10 + total_return,
\* 5 + sharpe_ratio * 10,  5 + max_drawdown / 4,  win_rate / 5  and
\* total_trades / 2  exact.
ScoreUnit == 2000

Points(p) == p * ScoreUnit

\* (a variant whose loss branch is not floored at 0)
ReturnPointsUnfloored(m) ==
    LET total_return == Get(m, "total_return", 0)
    IN  IF total_return >= 2000 THEN Points(30)
        ELSE IF total_return >= 1000 THEN Points(20)
        ELSE IF total_return >= 500 THEN Points(15)
        ELSE IF total_return >= 0 THEN Points(10)
        ELSE Points(10) + total_return * (ScoreUnit \div 100)

\* lines 86-97: Total Return (30 points)
ReturnPoints(m) ==
    LET total_return == Get(m, "total_return", 0)
    IN  IF total_return >= 2000 THEN Points(30)
        ELSE IF total_return >= 1000 THEN Points(20)
        ELSE IF total_return >= 500 THEN Points(15)
        ELSE IF total_return >= 0 THEN Points(10)
        ELSE Max(0, Points(10) + total_return * (ScoreUnit \div 100))

\* lines 99-110: Sharpe Ratio (25 points)
SharpePoints(m) ==
    LET sharpe_ratio == Get(m, "sharpe_ratio", 0)
    IN  IF sharpe_ratio >= 150 THEN Points(25)
        ELSE IF sharpe_ratio >= 100 THEN Points(20)
        ELSE IF sharpe_ratio >= 50 THEN Points(15)
        ELSE IF sharpe_ratio >= 0 THEN Points(10)
        ELSE Max(0, Points(5) + sharpe_ratio * 10 * (ScoreUnit \div 100))

\* lines 112-123: Maximum Drawdown (20 points)
DrawdownPoints(m) ==
    LET max_drawdown == Get(m, "max_drawdown", 0)
    IN  IF max_drawdown >= -500 THEN Points(20)
        ELSE IF max_drawdown >= -1000 THEN Points(15)
        ELSE IF max_drawdown >= -1500 THEN Points(10)
        ELSE IF max_drawdown >= -2000 THEN Points(5)
        ELSE Max(0, Points(5) + max_drawdown * (ScoreUnit \div 400))

\* (a variant whose branch below 40 adds win_rate / 4)
WinRatePointsQuarter(m) ==
    LET win_rate == Get(m, "win_rate", 0)
    IN  IF win_rate >= 7000 THEN Points(15)
        ELSE IF win_rate >= 6000 THEN Points(12)
        ELSE IF win_rate >= 5000 THEN Points(10)
        ELSE IF win_rate >= 4000 THEN Points(8)
        ELSE Max(0, win_rate * (ScoreUnit \div 400))

\* lines 125-136: Win Rate (15 points)
WinRatePoints(m) ==
    LET win_rate == Get(m, "win_rate", 0)
    IN  IF win_rate >= 7000 THEN Points(15)
        ELSE IF win_rate >= 6000 THEN Points(12)
        ELSE IF win_rate >= 5000 THEN Points(10)
        ELSE IF win_rate >= 4000 THEN Points(8)
        ELSE Max(0, win_rate * (ScoreUnit \div 500))

\* lines 138-149: Number of Trades (10 points)
TradesPoints(m) ==
    LET total_trades == Get(m, "total_trades", 0)
    IN  IF total_trades >= 2000 THEN Points(10)
        ELSE IF total_trades >= 1500 THEN Points(8)
        ELSE IF total_trades >= 1000 THEN Points(6)
        ELSE IF total_trades >= 500 THEN Points(4)
        ELSE Max(0, total_trades * (ScoreUnit \div 200))

\* _calculate_evaluation_score (lines 80-151)
calculate_evaluation_score(m) ==
    Min(Points(100),
        Max(0, ReturnPoints(m) + SharpePoints(m) + DrawdownPoints(m)
                 + WinRatePoints(m) + TradesPoints(m)))

\* (a variant that approves from a score of 60)
determine_viability_lenient(m, score) ==
    IF Get(m, "total_return", 0) < 500 THEN "REJECTED - Insufficient returns"
    ELSE IF Get(m, "sharpe_ratio", 0) < 50 THEN "REJECTED - Poor risk-adjusted returns"
    ELSE IF Get(m, "max_drawdown", 0) < -2000 THEN "REJECTED - Excessive drawdown"
    ELSE IF Get(m, "win_rate", 0) < 4000 THEN "REJECTED - Low win rate"
    ELSE IF Get(m, "total_trades", 0) < 500 THEN "REJECTED - Insufficient trading activity"
    ELSE IF score >= Points(80) THEN "APPROVED - Excellent performance"
    ELSE IF score >= Points(60) THEN "APPROVED - Good performance"
    ELSE "REJECTED - Poor overall performance"

\* _determine_viability (lines 153-187), with the criteria of lines 29-35
determine_viability(m, score) ==
    IF Get(m, "total_return", 0) < 500 THEN "REJECTED - Insufficient returns"
    ELSE IF Get(m, "sharpe_ratio", 0) < 50 THEN "REJECTED - Poor risk-adjusted returns"
    ELSE IF Get(m, "max_drawdown", 0) < -2000 THEN "REJECTED - Excessive drawdown"
    ELSE IF Get(m, "win_rate", 0) < 4000 THEN "REJECTED - Low win rate"
    ELSE IF Get(m, "total_trades", 0) < 500 THEN "REJECTED - Insufficient trading activity"
    ELSE IF score >= Points(80) THEN "APPROVED - Excellent performance"
    ELSE IF score >= Points(70) THEN "APPROVED - Good performance"
    ELSE IF score >= Points(60) THEN "CONDITIONAL - Acceptable with improvements"
    ELSE "REJECTED - Poor overall performance"

\* the viability texts that contain "APPROVED" / "CONDITIONAL" (lines 365, 370)
ContainsApproved(viability) ==
    viability \in {"APPROVED - Excellent performance", "APPROVED - Good performance"}

ContainsConditional(viability) ==
    viability = "CONDITIONAL - Acceptable with improvements"

\* _make_decision (lines 362-373)
make_decision(viability, score) ==
    IF ContainsApproved(viability)
    THEN IF score >= Points(80)
         THEN "DEPLOY - Strategy ready for live trading"
         ELSE "DEPLOY WITH MONITORING - Deploy but closely monitor performance"
    ELSE IF ContainsConditional(viability)
    THEN "ITERATE - Improve strategy before deployment"
    ELSE "REJECT - Strategy needs significant improvements"

\* the metric values explored, by key; a key may also be missing
MetricValues ==
    [total_return |-> {-1500, -550, 0, 499, 500, 1000, 2000},
     sharpe_ratio |-> {-100, -25, 0, 49, 50, 100, 150},
     max_drawdown |-> {-4000, -2400, -2001, -2000, -1500, -1000, -500},
     win_rate     |-> {0, 2000, 3999, 4000, 5000, 6000, 7000},
     total_trades |-> {0, 300, 499, 500, 1000, 1500, 2000}]

\* the dictionaries with at most the key k
Entry(k) == {<< >>} \cup {[x \in {k} |-> v] : v \in MetricValues[k]}

MetricDicts ==
    {a @@ b @@ c @@ d @@ e :
        a \in Entry("total_return"), b \in Entry("sharpe_ratio"),
        c \in Entry("max_drawdown"), d \in Entry("win_rate"), e \in Entry("total_trades")}
    \cup {[error |-> 0]}

NotEvaluated == [status |-> "none"]

EvaluatorStart ==
    /\ metrics \in MetricDicts
    /\ evaluation = NotEvaluated

\* evaluate_strategy (lines 37-78) on a backtest result.  metrics_analysis and
\* recommendations are texts derived from the metrics and are left out of the
\* result.  A result without performance_metrics is read as {} (line 43).
evaluate_strategy(backtest_results) ==
    LET m == Get(backtest_results, "performance_metrics", << >>)
    IN  IF "error" \in DOMAIN m
        THEN [status |-> "failed", reason |-> "Invalid backtest results",
              recommendation |-> "Re-run backtest with valid data"]
        ELSE LET evaluation_score == calculate_evaluation_score(m)
                 viability == determine_viability(m, evaluation_score)
             IN  [status           |-> "success",
                  evaluation_score |-> evaluation_score,
                  viability        |-> viability,
                  decision         |-> make_decision(viability, evaluation_score)]

\* EvaluatorAgent.evaluate_strategy called with a result that carries metrics
EvaluateStrategy ==
    /\ evaluation = NotEvaluated
    /\ evaluation' = evaluate_strategy([performance_metrics |-> metrics])
    /\ UNCHANGED metrics

-----------------------------------------------------------------------------
(* Backend route handlers  (backend/api/strategies.py, trading.py, portfolio.py) *)

\* the rows created so far, over all tables
RowsCreated == (db.next_strategy_id - 1) + Len(db.trades) + (db.next_portfolio_id - 1)

\* ids a request can address: those handed out so far and one never handed out
StrategyIdsAsked == 1..db.next_strategy_id

TradeIdsAsked == 1..(Len(db.trades) + 1)

PortfolioIdsAsked == 1..db.next_portfolio_id

TradeSymbols == {"AAPL", "XYZ"}
TradeQuantities == {10}
\* prices of a TradeCreate; 0 is price=None
TradePrices == {0, 200}
PortfolioCashes == {100000}
NewValues == {80000, 120000}

\* (a variant without the price 100.0 of unknown symbols)
BackendMockPriceNoDefault(symbol) ==
    CASE symbol = "AAPL"  -> 150
      [] symbol = "GOOGL" -> 2800
      [] symbol = "MSFT"  -> 300
      [] symbol = "TSLA"  -> 250
      [] symbol = "AMZN"  -> 3300
      [] OTHER            -> 0

\* trading.py lines 54-61: the mock price table, 100.0 otherwise
BackendMockPrice(symbol) ==
    CASE symbol = "AAPL"  -> 150
      [] symbol = "GOOGL" -> 2800
      [] symbol = "MSFT"  -> 300
      [] symbol = "TSLA"  -> 250
      [] symbol = "AMZN"  -> 3300
      [] OTHER            -> 100

BackendStart ==
    /\ db = [strategies |-> << >>, next_strategy_id |-> 1,
             trades |-> << >>,
             portfolios |-> << >>, next_portfolio_id |-> 1]
    /\ http = [handler |-> "none", found |-> TRUE, status |-> 0, detail |-> "none"]

\* raise HTTPException(status_code=404, detail=...)
NotFound(detail) == [type |-> "HTTPException", status_code |-> 404, detail |-> detail]

\* an exception of the database layer, or of the arithmetic
OtherFailure(detail) == [type |-> "Exception", status_code |-> 0, detail |-> detail]

\* str(e): an HTTPException prints as "<status_code>: <detail>"
Str(e) ==
    IF e.type = "HTTPException"
    THEN CASE e.detail = "Strategy not found"  -> "404: Strategy not found"
           [] e.detail = "Trade not found"     -> "404: Trade not found"
           [] e.detail = "Portfolio not found" -> "404: Portfolio not found"
           [] OTHER                            -> e.detail
    ELSE e.detail

\* 'except Exception as e: raise HTTPException(status_code=500, detail=str(e))':
\* the clause every handler ends with.  HTTPException is an Exception, so the
\* 404 raised inside the try block is caught here as well.
ExceptException(e) == [status |-> 500, detail |-> Str(e)]

Ok == [status |-> 200, detail |-> "ok"]

\* the response of a handler; found records whether the addressed row existed
Respond(handler, found, r) ==
    [handler |-> handler, found |-> found, status |-> r.status, detail |-> r.detail]

\* strategies.py create_strategy (lines 46-71)
CreateStrategy ==
    /\ RowsCreated < MaxRecords
    /\ \E fails \in BOOLEAN :
          IF fails
          THEN /\ http' = Respond("create_strategy", TRUE,
                                  ExceptException(OtherFailure("database error")))
               /\ UNCHANGED db
          ELSE LET id == db.next_strategy_id
               IN  /\ db' = [db EXCEPT
                               !.strategies = [s \in DOMAIN db.strategies \cup {id} |->
                                                 IF s = id THEN [name |-> "n", status |-> "draft"]
                                                 ELSE db.strategies[s]],
                               !.next_strategy_id = id + 1]
                   /\ http' = Respond("create_strategy", TRUE, Ok)

\* strategies.py get_strategy (lines 92-103)
GetStrategy ==
    \E strategy_id \in StrategyIdsAsked, fails \in BOOLEAN :
        LET found == strategy_id \in DOMAIN db.strategies
        IN  /\ http' = Respond("get_strategy", found,
                          IF fails THEN ExceptException(OtherFailure("database error"))
                          ELSE IF ~found THEN ExceptException(NotFound("Strategy not found"))
                          ELSE Ok)
            /\ UNCHANGED db

\* a handler that looks a strategy up, changes it and commits: update_strategy
\* (lines 105-132), delete_strategy (134-152), activate_strategy (187-205),
\* deactivate_strategy (207-225)
ChangeStrategy(handler, strategy_id, fails, after) ==
    LET found == strategy_id \in DOMAIN db.strategies
    IN  IF fails
        THEN /\ http' = Respond(handler, found, ExceptException(OtherFailure("database error")))
             /\ UNCHANGED db
        ELSE IF ~found
        THEN /\ http' = Respond(handler, found, ExceptException(NotFound("Strategy not found")))
             /\ UNCHANGED db
        ELSE /\ db' = [db EXCEPT !.strategies = after]
             /\ http' = Respond(handler, found, Ok)

UpdateStrategy ==
    \E strategy_id \in StrategyIdsAsked, fails \in BOOLEAN,
       update_data \in {<< >>, [status |-> "archived"]} :
        ChangeStrategy("update_strategy", strategy_id, fails,
            [db.strategies EXCEPT ![strategy_id] =
                [name   |-> Get(update_data, "name", @.name),
                 status |-> Get(update_data, "status", @.status)]])

DeleteStrategy ==
    \E strategy_id \in StrategyIdsAsked, fails \in BOOLEAN :
        ChangeStrategy("delete_strategy", strategy_id, fails,
            [s \in DOMAIN db.strategies \ {strategy_id} |-> db.strategies[s]])

ActivateStrategy ==
    \E strategy_id \in StrategyIdsAsked, fails \in BOOLEAN :
        ChangeStrategy("activate_strategy", strategy_id, fails,
            [db.strategies EXCEPT ![strategy_id].status = "active"])

DeactivateStrategy ==
    \E strategy_id \in StrategyIdsAsked, fails \in BOOLEAN :
        ChangeStrategy("deactivate_strategy", strategy_id, fails,
            [db.strategies EXCEPT ![strategy_id].status = "inactive"])

\* trading.py execute_trade (lines 39-101).  trade_id is a uuid4 in the code;
\* the model numbers the trades.  The response is kept with the TradeCreate
\* it answers.
BackendExecuteTrade ==
    \E strategy_id \in StrategyIdsAsked, symbol \in TradeSymbols,
       quantity \in TradeQuantities, price_arg \in TradePrices, fails \in BOOLEAN :
        LET trade == [strategy_id |-> strategy_id, symbol |-> symbol,
                      quantity |-> quantity, price |-> price_arg]
            found == strategy_id \in DOMAIN db.strategies
            price == IF price_arg = 0 THEN BackendMockPrice(symbol) ELSE price_arg
            db_trade == [id          |-> Len(db.trades) + 1,
                         trade_id    |-> Len(db.trades) + 1,
                         strategy_id |-> strategy_id,
                         symbol      |-> symbol,
                         quantity    |-> quantity,
                         price       |-> price,
                         order_type  |-> "MARKET",
                         trade_value |-> quantity * price,
                         status      |-> "executed"]
        IN  IF ~found
            THEN /\ http' = Respond("execute_trade", found,
                               IF fails THEN ExceptException(OtherFailure("database error"))
                               ELSE ExceptException(NotFound("Strategy not found")))
                             @@ [trade |-> trade]
                 /\ UNCHANGED db
            ELSE IF fails
            THEN \* db.commit() raised: the session is rolled back
                 /\ http' = Respond("execute_trade", found,
                                    ExceptException(OtherFailure("database error")))
                             @@ [trade |-> trade]
                 /\ UNCHANGED db
            ELSE /\ RowsCreated < MaxRecords
                 /\ db' = [db EXCEPT !.trades = Append(@, db_trade)]
                 /\ http' = Respond("execute_trade", found, Ok) @@ [trade |-> trade]

\* trading.py get_trade (lines 126-137)
GetTrade ==
    \E trade_id \in TradeIdsAsked, fails \in BOOLEAN :
        LET found == \E k \in 1..Len(db.trades) : db.trades[k].trade_id = trade_id
        IN  /\ http' = Respond("get_trade", found,
                          IF fails THEN ExceptException(OtherFailure("database error"))
                          ELSE IF ~found THEN ExceptException(NotFound("Trade not found"))
                          ELSE Ok)
            /\ UNCHANGED db

\* portfolio.py create_portfolio (lines 33-55); the column defaults of
\* models/portfolio.py fill the other fields
CreatePortfolio ==
    /\ RowsCreated < MaxRecords
    /\ \E cash \in PortfolioCashes, fails \in BOOLEAN :
          IF fails
          THEN /\ http' = Respond("create_portfolio", TRUE,
                                  ExceptException(OtherFailure("database error")))
               /\ UNCHANGED db
          ELSE LET id == db.next_portfolio_id
                   row == [cash |-> cash, total_value |-> cash, max_value |-> cash,
                           current_drawdown |-> Zero, daily_pnl |-> 0, total_positions |-> 0]
               IN  /\ db' = [db EXCEPT
                               !.portfolios = [q \in DOMAIN db.portfolios \cup {id} |->
                                                 IF q = id THEN row ELSE db.portfolios[q]],
                               !.next_portfolio_id = id + 1]
                   /\ http' = Respond("create_portfolio", TRUE, Ok)

\* portfolio.py get_portfolio (lines 66-77) and get_portfolio_status (79-136)
ReadPortfolio(handler) ==
    \E portfolio_id \in PortfolioIdsAsked, fails \in BOOLEAN :
        LET found == portfolio_id \in DOMAIN db.portfolios
        IN  /\ http' = Respond(handler, found,
                          IF fails THEN ExceptException(OtherFailure("database error"))
                          ELSE IF ~found THEN ExceptException(NotFound("Portfolio not found"))
                          ELSE Ok)
            /\ UNCHANGED db

GetPortfolio == ReadPortfolio("get_portfolio")

GetPortfolioStatus == ReadPortfolio("get_portfolio_status")

\* portfolio.py get_portfolio_performance (lines 138-160): line 148 divides
\* by max_value
GetPortfolioPerformance ==
    \E portfolio_id \in PortfolioIdsAsked, fails \in BOOLEAN :
        LET found == portfolio_id \in DOMAIN db.portfolios
        IN  /\ http' = Respond("get_portfolio_performance", found,
                          IF fails THEN ExceptException(OtherFailure("database error"))
                          ELSE IF ~found THEN ExceptException(NotFound("Portfolio not found"))
                          ELSE IF db.portfolios[portfolio_id].max_value = 0
                          THEN ExceptException(OtherFailure("float division by zero"))
                          ELSE Ok)
            /\ UNCHANGED db

\* (a variant that leaves max_value as it was)
updated_portfolio_stale_max(portfolio, new_value) ==
    [portfolio EXCEPT
       !.total_value = new_value,
       !.current_drawdown = Frac((portfolio.max_value - new_value) * 100,
                                 portfolio.max_value),
       !.daily_pnl = new_value - portfolio.total_value]

\* portfolio.py lines 175-185: the row after the update (max_value > 0)
updated_portfolio(portfolio, new_value) ==
    LET old_value == portfolio.total_value
        max_value == Max(portfolio.max_value, new_value)
    IN  [portfolio EXCEPT
           !.total_value = new_value,
           !.max_value = max_value,
           !.current_drawdown = Frac((max_value - new_value) * 100, max_value),
           !.daily_pnl = new_value - old_value]

\* portfolio.py update_portfolio_value (lines 162-197)
BackendUpdatePortfolioValue ==
    \E portfolio_id \in PortfolioIdsAsked, new_value \in NewValues, fails \in BOOLEAN :
        LET found == portfolio_id \in DOMAIN db.portfolios
        IN  IF fails
            THEN /\ http' = Respond("update_portfolio_value", found,
                                    ExceptException(OtherFailure("database error")))
                 /\ UNCHANGED db
            ELSE IF ~found
            THEN /\ http' = Respond("update_portfolio_value", found,
                                    ExceptException(NotFound("Portfolio not found")))
                 /\ UNCHANGED db
            ELSE IF Max(db.portfolios[portfolio_id].max_value, new_value) = 0
            THEN \* line 181 divides by zero; the session is rolled back
                 /\ http' = Respond("update_portfolio_value", found,
                                ExceptException(OtherFailure("float division by zero")))
                 /\ UNCHANGED db
            ELSE /\ db' = [db EXCEPT !.portfolios[portfolio_id] =
                                        updated_portfolio(@, new_value)]
                 /\ http' = Respond("update_portfolio_value", found, Ok)

-----------------------------------------------------------------------------
(* Market data  (backend/api/zerodha.py) *)

\* Days are numbered; a bar is stamped with the midnight of its day, and the
\* database compares the stamp with the start_date and end_date of the
\* request, both inclusive.

\* lines 121-125: the stored bars of the symbol within the range, in id order
stored_bars(table, symbol, start_date, end_date) ==
    SelectSeq(table, LAMBDA row : /\ row.symbol = symbol
                                  /\ row.day >= start_date
                                  /\ row.day <= end_date)

\* ZerodhaAPIClient.get_historical_data (lines 52-87): one bar for each day
\* from start to end, with randomly drawn prices; every list of bars it can
\* return.  The model keeps the close price of a bar, drawn from two values.
get_historical_data(symbol, start_date, end_date) ==
    LET n == IF end_date >= start_date THEN end_date - start_date + 1 ELSE 0
    IN  {[k \in 1..n |-> [symbol |-> symbol, day |-> start_date + k - 1, close |-> f[k]]] :
            f \in [1..n -> {100, 101}]}

\* no /market-data request yet, an empty table
MarketIdle ==
    /\ zerodha_data = << >>
    /\ market = [status |-> 0, symbol |-> "none", start_date |-> 0, end_date |-> 0,
                 data |-> << >>, client_calls |-> 0]

\* get_market_data (lines 106-181) with start_date and end_date given.  The
\* requests are for AAPL over any range, and for TSLA over day 1 alone.
GetMarketData ==
    \E start_date \in 1..MaxDay, end_date \in 1..MaxDay, fails \in BOOLEAN :
      \E symbol \in IF start_date = 1 /\ end_date = 1 THEN {"AAPL", "TSLA"} ELSE {"AAPL"} :
        LET db_data == stored_bars(zerodha_data, symbol, start_date, end_date)
            asked == [symbol |-> symbol, start_date |-> start_date, end_date |-> end_date]
        IN  IF db_data # << >>
            THEN \* lines 127-142; a failing query is answered by line 180
                 /\ market' = IF fails
                              THEN asked @@ [status |-> 500, data |-> << >>, client_calls |-> 0]
                              ELSE asked @@ [status |-> 200, data |-> db_data, client_calls |-> 0]
                 /\ UNCHANGED zerodha_data
            ELSE \* lines 143-178; a failing commit is answered by line 180 and
                 \* the session is closed without the rows
                 \E api_data \in get_historical_data(symbol, start_date, end_date) :
                    IF fails
                    THEN /\ market' = asked @@ [status |-> 500, data |-> << >>,
                                                client_calls |-> 1]
                         /\ UNCHANGED zerodha_data
                    ELSE /\ market' = asked @@ [status |-> 200, data |-> api_data,
                                                client_calls |-> 1]
                         /\ zerodha_data' = zerodha_data \o api_data

-----------------------------------------------------------------------------
(* StrategyGeneratorAgent  (AI_service/agents/strategy_generator.py) *)

GeneratorSymbols == {"AAPL", "TSLA"}
IndicatorLists == {<<"RSI">>, <<"RSI", "MACD">>}
RiskLevels == {"low", "medium", "aggressive"}
GeneratorCapitals == {1000, 100000}

\* what the chat completion can do: raise an Exception, answer with no
\* content (None), or answer with a text that holds a ```python fence, a
\* plain ``` fence or no fence
AiOutcomes == {"raises", "no_content", "python_fence", "plain_fence", "no_fence"}

\* lines 127-133: risk_multipliers.get(risk_level, 1.0), in tenths
RiskMultiplier(risk_level) ==
    CASE risk_level = "low"    -> 5
      [] risk_level = "medium" -> 10
      [] risk_level = "high"   -> 20
      [] OTHER                 -> 10

\* (a variant whose template interpolates the capital as well)
generate_fallback_strategy_with_capital(symbol, indicators, risk_level, capital_arg) ==
    [template   |-> "fallback",
     symbol     |-> symbol,
     indicators |-> indicators,
     risk_mult  |-> RiskMultiplier(risk_level),
     capital    |-> capital_arg]

\* _generate_fallback_strategy (lines 117-241): the text is the template with
\* {symbol}, {indicators} and {risk_mult} filled in; 'capital' occurs in the
\* template only as the name of the generated function's parameter
generate_fallback_strategy(symbol, indicators, risk_level, capital_arg) ==
    [template   |-> "fallback",
     symbol     |-> symbol,
     indicators |-> indicators,
     risk_mult  |-> RiskMultiplier(risk_level)]

\* lines 101-108: the answer of the model, cut down to the code in its fence
\* and stripped.  An answer is modelled by its parts: the text before the
\* fence, the text inside it, and the whole text.
CleanAnswer(outcome) ==
    [template |-> "ai",
     code     |-> CASE outcome = "python_fence" -> "inside python fence"
                    [] outcome = "plain_fence"  -> "inside plain fence"
                    [] OTHER                    -> "whole answer"]

\* _generate_ai_strategy (lines 46-115): an Exception of the call, and the
\* TypeError of '"```python" in None', end in the fallback (lines 111-115)
generate_ai_strategy(symbol, indicators, risk_level, capital_arg, outcome) ==
    IF outcome \in {"raises", "no_content"}
    THEN generate_fallback_strategy(symbol, indicators, risk_level, capital_arg)
    ELSE CleanAnswer(outcome)

NotGenerated == [status |-> "none"]

\* __init__ (lines 13-26): use_openai is decided once, from the environment
GeneratorStart ==
    /\ strategy_generator \in {[use_openai |-> b] : b \in BOOLEAN}
    /\ generated = NotGenerated
    /\ generated_before = NotGenerated

GeneratorIdle ==
    /\ strategy_generator = [use_openai |-> FALSE]
    /\ generated = NotGenerated
    /\ generated_before = NotGenerated

\* generate_strategy (lines 28-44)
GenerateStrategy ==
    \E symbol \in GeneratorSymbols, indicators \in IndicatorLists,
       risk_level \in RiskLevels, capital_arg \in GeneratorCapitals,
       outcome \in AiOutcomes :
        /\ generated' =
              IF strategy_generator.use_openai
              THEN [status |-> "returned", symbol |-> symbol, indicators |-> indicators,
                    risk_level |-> risk_level, capital |-> capital_arg, ai |-> outcome,
                    text |-> generate_ai_strategy(symbol, indicators, risk_level,
                                                  capital_arg, outcome)]
              ELSE [status |-> "returned", symbol |-> symbol, indicators |-> indicators,
                    risk_level |-> risk_level, capital |-> capital_arg, ai |-> "not called",
                    text |-> generate_fallback_strategy(symbol, indicators, risk_level,
                                                        capital_arg)]
        /\ generated_before' = generated
        /\ UNCHANGED strategy_generator

-----------------------------------------------------------------------------
(* Concurrent /execute-trade requests  (AI_service/main.py) *)

\* The handler is a coroutine on the single event loop of uvicorn.run
\* (main.py line 143).  Another request can run only while the handler is
\* suspended at an await.  Its two awaits (lines 108 and 122) call coroutines
\* whose own awaits (risk_manager.py lines 35, 54; strategy_service.py lines
\* 28, 100, 137) call coroutines that return without waiting on anything, so
\* no await of the handler hands control back to the loop.

\* (a variant in which the await of check_risk waits on I/O)
SuspensionPointsAfterCheck == {"after check_risk"}

\* the awaits of the handler at which it is suspended
SuspensionPoints == {}

\* the handler of request k runs from where it is to its next suspension
\* point, or to its return
RunHandler(k) ==
    LET req == inflight[k].req
    IN  /\ inflight[k].pc # "done"
        /\ IF inflight[k].pc = "waiting"
           THEN LET rc == check_risk(risk_manager, req.strategy_id, req.symbol,
                                     req.quantity, 0)
                IN  /\ risk_manager' = rc.self
                    /\ IF ~rc.result.approved
                       THEN /\ inflight' = [inflight EXCEPT
                                   ![k].pc = "done",
                                   ![k].response =
                                       [status |-> "rejected", reason |-> rc.result.reason,
                                        message |-> "Trade rejected by risk manager"]]
                            /\ UNCHANGED strategy_service
                       ELSE IF "after check_risk" \in SuspensionPoints
                       THEN /\ inflight' = [inflight EXCEPT ![k].pc = "checked"]
                            /\ UNCHANGED strategy_service
                       ELSE LET tr == service_execute_trade(strategy_service, req.strategy_id,
                                          req.symbol, req.quantity, req.order_type)
                            IN  /\ strategy_service' = tr.self
                                /\ inflight' = [inflight EXCEPT
                                       ![k].pc = "done",
                                       ![k].response =
                                           [status |-> "success", trade_result |-> tr.result,
                                            message |-> "Trade executed successfully"]]
           ELSE LET tr == service_execute_trade(strategy_service, req.strategy_id,
                                                req.symbol, req.quantity, req.order_type)
                IN  /\ strategy_service' = tr.self
                    /\ inflight' = [inflight EXCEPT
                           ![k].pc = "done",
                           ![k].response =
                               [status |-> "success", trade_result |-> tr.result,
                                message |-> "Trade executed successfully"]]
                    /\ UNCHANGED risk_manager

\* a request arrives; its handler has not run yet
Arrive ==
    /\ Len(inflight) < MaxRequests
    /\ \E sid \in StrategyIds, sym \in {"AAPL"}, q \in {10, 66}, ot \in {"BUY", "SELL"} :
          inflight' = Append(inflight,
                             [req |-> [strategy_id |-> sid, symbol |-> sym, quantity |-> q,
                                       price |-> 0, order_type |-> ot],
                              pc |-> "waiting",
                              response |-> NoResponse])
    /\ UNCHANGED <<risk_manager, strategy_service>>

\* the event loop runs one of the handlers that are not finished
Resume == \E k \in 1..Len(inflight) : RunHandler(k)

-----------------------------------------------------------------------------
(* The states of the risk manager, as a set *)

\* the risk manager after one more call of check_risk, update_portfolio_value,
\* update_daily_pnl or reset_daily_limits
RiskSuccessors(rm) ==
    {check_risk(rm, sid, sym, q, p).self :
        sid \in StrategyIds, sym \in Symbols, q \in Quantities, p \in PriceArgs}
    \cup {update_portfolio_value(rm, v) : v \in PortfolioValues}
    \cup {[rm EXCEPT !.daily_pnl = pnl] : pnl \in DailyPnls}
    \cup {[rm EXCEPT !.daily_pnl = 0]}

RECURSIVE RiskStates(_, _)
\* the risk manager states that at most n calls lead to from the state rm0
RiskStates(rm0, n) ==
    IF n = 0
    THEN {rm0}
    ELSE LET S == RiskStates(rm0, n - 1)
         IN  S \cup UNION {RiskSuccessors(rm) : rm \in S}

\* the checks that fail for a trade of quantity shares of symbol at the mock price
FailingChecks(rm, symbol, quantity) ==
    FailedChecks(RiskChecks(rm, symbol, quantity * RiskCurrentPrice(symbol)))

-----------------------------------------------------------------------------
(* StrategyService.execute_trade called on its own *)

NoTradeResult == [status |-> "none"]

\* one call of StrategyService.execute_trade with a positive quantity; 700
\* shares of either symbol cost more than the initial cash
ServiceExecuteTrade ==
    \E sid \in StrategyIds, sym \in {"AAPL", "NFLX"}, q \in {10, 66, 700},
       ot \in {"BUY", "SELL", "MARKET"} :
        LET tr == service_execute_trade(strategy_service, sid, sym, q, ot)
        IN  /\ Len(tr.self.trade_history) <= MaxServiceTrades
            /\ strategy_service' = tr.self
            /\ trade_result' = tr.result
            /\ request' = [strategy_id |-> sid, symbol |-> sym, quantity |-> q,
                           price |-> 0, order_type |-> ot]
            /\ op' = "execute_trade"
            /\ UNCHANGED <<risk_manager, risk_check, response, calls>>

-----------------------------------------------------------------------------
(* Specifications *)

\* run_backtest not started
BacktestIdle ==
    /\ bt_pc = "idle"
    /\ initial_capital = 0
    /\ strategy_code = "raises"
    /\ queried = << >>
    /\ errors = << >>
    /\ data = << >>
    /\ bt_i = 0
    /\ capital = 0
    /\ position = 0
    /\ trades = << >>
    /\ equity_curve = << >>
    /\ strategy_result = NotCalled
    /\ result = NoResultYet

\* evaluate_strategy not called
EvaluatorIdle ==
    /\ metrics = << >>
    /\ evaluation = NotEvaluated

\* no /execute-trade request in flight
InflightIdle == inflight = << >>

\* StrategyService.execute_trade not called on its own
ServiceIdle == trade_result = NoTradeResult

\* the risk manager on its own
InitRisk == RiskStart /\ BacktestIdle /\ EvaluatorIdle /\ BackendStart /\ GeneratorIdle /\ InflightIdle /\ ServiceIdle /\ MarketIdle

NextRisk ==
    /\ \/ CheckRisk
       \/ UpdatePortfolioValue
       \/ UpdateDailyPnl
       \/ ResetDailyLimits
    /\ UNCHANGED <<btVars, evVars, beVars, genVars, inflight, trade_result, mdVars>>

SpecRisk == InitRisk /\ [][NextRisk]_vars

\* the AI service answering /execute-trade requests
NextTrade == ExecuteTrade /\ UNCHANGED <<btVars, evVars, beVars, genVars, inflight, trade_result, mdVars>>

SpecTrade == InitRisk /\ [][NextTrade]_vars

\* one call of BacktestAgent.run_backtest
InitBacktest == BacktestStart /\ RiskStart /\ EvaluatorIdle /\ BackendStart /\ GeneratorIdle /\ InflightIdle /\ ServiceIdle /\ MarketIdle

NextBacktest ==
    /\ \/ TrySource
       \/ AllSourcesFailed
       \/ CompileStrategy
       \/ BacktestRow
       \/ FinishBacktest
    /\ UNCHANGED <<riskVars, evVars, beVars, genVars, inflight, trade_result, mdVars>>

SpecBacktest == InitBacktest /\ [][NextBacktest]_vars

\* one call of EvaluatorAgent.evaluate_strategy
InitEval == EvaluatorStart /\ RiskStart /\ BacktestIdle /\ BackendStart /\ GeneratorIdle /\ InflightIdle /\ ServiceIdle /\ MarketIdle

NextEval == EvaluateStrategy /\ UNCHANGED <<riskVars, btVars, beVars, genVars, inflight, trade_result, mdVars>>

SpecEval == InitEval /\ [][NextEval]_vars

\* the backend answering requests
InitBackend == BackendStart /\ RiskStart /\ BacktestIdle /\ EvaluatorIdle /\ GeneratorIdle /\ InflightIdle /\ ServiceIdle /\ MarketIdle

NextBackend ==
    /\ \/ CreateStrategy
       \/ GetStrategy
       \/ UpdateStrategy
       \/ DeleteStrategy
       \/ ActivateStrategy
       \/ DeactivateStrategy
       \/ BackendExecuteTrade
       \/ GetTrade
       \/ CreatePortfolio
       \/ GetPortfolio
       \/ GetPortfolioStatus
       \/ GetPortfolioPerformance
       \/ BackendUpdatePortfolioValue
    /\ UNCHANGED <<riskVars, btVars, evVars, genVars, inflight, trade_result, mdVars>>

SpecBackend == InitBackend /\ [][NextBackend]_vars

\* StrategyGeneratorAgent answering generate_strategy calls
InitGenerator ==
    GeneratorStart /\ RiskStart /\ BacktestIdle /\ EvaluatorIdle /\ BackendStart /\ InflightIdle /\ ServiceIdle /\ MarketIdle

NextGenerator == GenerateStrategy /\ UNCHANGED <<riskVars, btVars, evVars, beVars, inflight, trade_result, mdVars>>

SpecGenerator == InitGenerator /\ [][NextGenerator]_vars

\* /execute-trade requests arriving while others are in flight
NextConcurrent ==
    /\ \/ Arrive
       \/ Resume
    /\ UNCHANGED <<op, request, risk_check, response, calls, btVars, evVars, beVars, genVars,
                 trade_result, mdVars>>

SpecConcurrent == InitRisk /\ [][NextConcurrent]_vars

\* StrategyService called on its own, without the risk manager in front
NextService ==
    /\ ServiceExecuteTrade
    /\ UNCHANGED <<btVars, evVars, beVars, genVars, inflight, mdVars>>

SpecService == InitRisk /\ [][NextService]_vars

\* the backend answering /market-data requests
NextMarketData ==
    /\ GetMarketData
    /\ UNCHANGED <<riskVars, btVars, evVars, beVars, genVars, inflight, trade_result>>

SpecMarketData == InitRisk /\ [][NextMarketData]_vars


-----------------------------------------------------------------------------
(* Claims about the risk manager and /execute-trade *)

\* the price check_risk works with for the last request
RequestPrice(req) == IF req.price = 0 THEN RiskCurrentPrice(req.symbol) ELSE req.price

\* C1: check_risk answers approved=True if and only if all five checks
\* (position_size, portfolio_risk, daily_loss, drawdown, exposure), evaluated
\* on the risk manager's state before the call and the requested trade, are
\* approved; otherwise the answer is approved=False and its reason names
\* exactly the failed checks.  (With portfolio_value = 0 no check is evaluated
\* and the answer is approved=False.)
C1_ApprovedIffAllFiveChecks ==
    [][op' = "check_risk" =>
        IF risk_manager.portfolio_value = 0
        THEN ~risk_check'.approved
        ELSE LET checks == RiskChecks(risk_manager, request'.symbol,
                                      request'.quantity * RequestPrice(request'))
                 failed == {n \in {"position_size", "portfolio_risk", "daily_loss",
                                   "drawdown", "exposure"} : ~checks[n].approved}
                 named == {risk_check'.reason.failed[i] :
                              i \in 1..Len(risk_check'.reason.failed)}
             IN  /\ risk_check'.checks = checks
                 /\ risk_check'.approved <=> (failed = {})
                 /\ ~risk_check'.approved =>
                       /\ risk_check'.reason.text = "Failed risk checks"
                       /\ named = failed
                       /\ Len(risk_check'.reason.failed) = Cardinality(failed)
    ]_vars

\* witness of C1: a check_risk call rejected with several failed checks named
C1_Witness ==
    /\ op = "check_risk"
    /\ ~risk_check.approved
    /\ risk_check.reason.text = "Failed risk checks"
    /\ Len(risk_check.reason.failed) >= 2
    /\ Len(risk_check.reason.failed) < 5

\* C2: in /execute-trade the risk check comes first and
\* StrategyService.execute_trade runs only for an approved request; a
\* rejected request is answered 'rejected' and leaves the strategy service's
\* trade_history, cash and positions as they were.
C2_RiskCheckBeforeExecution ==
    [][op' = "/execute-trade" =>
        /\ Len(calls') >= 1 /\ calls'[1] = "check_risk"
        /\ (\E i \in 1..Len(calls') : calls'[i] = "execute_trade") => risk_check'.approved
        /\ strategy_service' # strategy_service => risk_check'.approved
        /\ ~risk_check'.approved =>
              /\ response'.status = "rejected"
              /\ strategy_service'.trade_history = strategy_service.trade_history
              /\ strategy_service'.portfolio.cash = strategy_service.portfolio.cash
              /\ strategy_service'.portfolio.positions = strategy_service.portfolio.positions
    ]_vars

\* witness of C2: a request rejected after earlier trades were executed
C2_Witness ==
    /\ op = "/execute-trade"
    /\ response.status = "rejected"
    /\ ~risk_check.approved
    /\ Len(strategy_service.trade_history) > 0

\* C14 as stated: for each of the five checks there is a state of the risk
\* manager with a positive portfolio value, among those that RiskDepth calls
\* lead to from its construction, and a trade for which that check is the
\* only one that fails.
C14_EachCheckFailsAlone ==
    op = "init" =>
        \A i \in 1..Len(CheckNames) :
            \E rm \in RiskStates(risk_manager, RiskDepth), sym \in Symbols, q \in Quantities :
                /\ rm.portfolio_value > 0
                /\ FailingChecks(rm, sym, q) = <<CheckNames[i]>>

\* C14, amended: each of position_size, daily_loss, drawdown and exposure is
\* the only failed check for some trade in some state of the risk manager
\* with a positive portfolio value that RiskDepth calls lead to from its
\* construction; portfolio_risk never fails alone: whenever check_risk finds
\* the portfolio_risk check failed, the position_size check has failed too.
C14_FourFailAloneRiskNeverAlone ==
    /\ op = "init" =>
          \A c \in {"position_size", "daily_loss", "drawdown", "exposure"} :
              \E rm \in RiskStates(risk_manager, RiskDepth), sym \in Symbols, q \in Quantities :
                  /\ rm.portfolio_value > 0
                  /\ FailingChecks(rm, sym, q) = <<c>>
    /\ (op \in {"check_risk", "/execute-trade"} /\ "checks" \in DOMAIN risk_check) =>
          (~risk_check.checks.portfolio_risk.approved =>
              ~risk_check.checks.position_size.approved)

\* witness of C14: a check_risk call in which the portfolio_risk check failed
\* (and the position_size check with it)
C14_Witness ==
    /\ op = "check_risk"
    /\ "checks" \in DOMAIN risk_check
    /\ ~risk_check.checks.portfolio_risk.approved
    /\ risk_manager.portfolio_value > 0

\* C18: /execute-trade answers with status 'success' and the message 'Trade
\* executed successfully' only if StrategyService.execute_trade returned
\* status 'success' and recorded the trade; when the strategy service
\* refuses the trade or reports an error the response status is not 'success'.
C18_SuccessOnlyIfExecuted ==
    [][(op' = "/execute-trade" /\ response'.status = "success") =>
          /\ response'.trade_result.status = "success"
          /\ Len(strategy_service'.trade_history) = Len(strategy_service.trade_history) + 1
    ]_vars

\* the drawdown of the risk manager is above 15%
DrawdownAboveLimit(rm) ==
    (rm.max_portfolio_value - rm.portfolio_value) * 100 > 15 * rm.max_portfolio_value

\* the daily loss of the risk manager is below -5% of a positive portfolio value
DailyLossBelowLimit(rm) ==
    rm.portfolio_value > 0 /\ rm.daily_pnl * 100 < -5 * rm.portfolio_value

\* every check_risk call in this state of the risk manager is rejected and
\* leaves the tracked positions as they are
LockedOut(rm) ==
    \A sid \in StrategyIds, sym \in Symbols, q \in Quantities, p \in PriceArgs :
        LET rc == check_risk(rm, sid, sym, q, p)
        IN  ~rc.result.approved /\ rc.self.positions = rm.positions

\* C21 as stated: once the drawdown is above 15% every check_risk call is
\* rejected until update_portfolio_value raises the value, and once the daily
\* loss is below -5% every check_risk call is rejected until
\* reset_daily_limits or a new update_daily_pnl; max_portfolio_value never
\* decreases and is never below portfolio_value.
C21_LockoutUntilResetOrRaise ==
    [][/\ risk_manager'.max_portfolio_value >= risk_manager.max_portfolio_value
       /\ risk_manager'.max_portfolio_value >= risk_manager'.portfolio_value
       /\ (DrawdownAboveLimit(risk_manager)
             /\ ~(/\ op' = "update_portfolio_value"
                  /\ risk_manager'.portfolio_value > risk_manager.portfolio_value)) =>
             LockedOut(risk_manager')
       /\ (DailyLossBelowLimit(risk_manager)
             /\ op' \notin {"reset_daily_limits", "update_daily_pnl"}) =>
             LockedOut(risk_manager')
    ]_vars

\* C21, amended: a check_risk call made while the drawdown is above 15% or
\* the daily loss is below -5% is rejected and leaves the tracked positions
\* unchanged; the drawdown lockout lasts until update_portfolio_value raises
\* the value; the daily-loss lockout lasts until reset_daily_limits, a new
\* update_daily_pnl or an update_portfolio_value, since the loss is measured
\* against the current portfolio value; max_portfolio_value never decreases
\* and is never below portfolio_value.
C21_LockoutUntilRatioRecovers ==
    [][/\ risk_manager'.max_portfolio_value >= risk_manager.max_portfolio_value
       /\ risk_manager'.max_portfolio_value >= risk_manager'.portfolio_value
       /\ (op' = "check_risk"
             /\ (DrawdownAboveLimit(risk_manager) \/ DailyLossBelowLimit(risk_manager))) =>
             /\ ~risk_check'.approved
             /\ risk_manager'.positions = risk_manager.positions
       /\ (DrawdownAboveLimit(risk_manager) /\ ~DrawdownAboveLimit(risk_manager')) =>
             /\ op' = "update_portfolio_value"
             /\ risk_manager'.portfolio_value > risk_manager.portfolio_value
       /\ (DailyLossBelowLimit(risk_manager) /\ ~DailyLossBelowLimit(risk_manager')) =>
             op' \in {"reset_daily_limits", "update_daily_pnl", "update_portfolio_value"}
    ]_vars

\* witness of C21: a check_risk call rejected during a drawdown lockout that
\* began after positions had been opened
C21_Witness ==
    /\ op = "check_risk"
    /\ DrawdownAboveLimit(risk_manager)
    /\ risk_manager.portfolio_value > 0
    /\ ~risk_check.approved
    /\ risk_check.reason.failed = <<"drawdown">>
    /\ DOMAIN risk_manager.positions # {}

-----------------------------------------------------------------------------
(* Claims about BacktestAgent *)

\* C3: in one iteration of the backtest loop a BUY is recorded only if the
\* strategy returned signal BUY with confidence strictly above 0.6 while no
\* position was held, a SELL only if it returned SELL with confidence strictly
\* above 0.6 while a position was held; cash and position change only with a
\* recorded trade, and a HOLD or missing signal, or a confidence of 0.6 or
\* less (the default 0.5 included), changes neither cash, position nor trades.
C3_TradesOnlyAboveThreshold ==
    [][(bt_pc = "loop" /\ bt_i' = bt_i + 1) =>
          LET returned   == strategy_result'.outcome = "returns"
              signal     == IF returned THEN Get(strategy_result'.value, "signal", "HOLD")
                            ELSE "none"
              confidence == IF returned THEN Get(strategy_result'.value, "confidence", 50)
                            ELSE 0
              recorded   == Len(trades') = Len(trades) + 1
              bought     == recorded /\ trades'[Len(trades')].action = "BUY"
              sold       == recorded /\ trades'[Len(trades')].action = "SELL"
          IN  /\ trades' = trades \/ (recorded /\ SubSeq(trades', 1, Len(trades)) = trades)
              /\ recorded => bought \/ sold
              /\ bought => returned /\ signal = "BUY" /\ position = 0 /\ confidence > 60
              /\ sold => returned /\ signal = "SELL" /\ position > 0 /\ confidence > 60
              /\ trades' = trades => capital' = capital /\ position' = position
              /\ (signal \notin {"BUY", "SELL"} \/ confidence <= 60) =>
                     trades' = trades /\ capital' = capital /\ position' = position]_vars

\* a row, after a completed round trip, on which the strategy returned BUY at
\* a confidence of exactly 0.6 and nothing was bought
C3_Witness ==
    /\ bt_pc = "loop"
    /\ strategy_result.outcome = "returns"
    /\ Get(strategy_result.value, "signal", "HOLD") = "BUY"
    /\ Get(strategy_result.value, "confidence", 50) = 60
    /\ position = 0
    /\ Len(trades) = 2
    /\ Len(equity_curve) >= 3

\* C4: when the loop ends with shares held, one final SELL of all of them at
\* the last close is appended and its revenue added to cash; with no shares
\* held nothing is appended.  Every result that carries final_capital has as
\* many BUY as SELL trades, and final_capital = initial_capital - (sum of the
\* BUY costs) + (sum of the SELL revenues).
C4_FinalSellClosesPosition ==
    [][(bt_pc = "loop" /\ bt_pc' = "done") =>
          LET last == data[Len(data)]
          IN  /\ position > 0 =>
                    /\ Len(trades') = Len(trades) + 1
                    /\ SubSeq(trades', 1, Len(trades)) = trades
                    /\ trades'[Len(trades')].action = "SELL"
                    /\ trades'[Len(trades')].shares = position
                    /\ trades'[Len(trades')].price = last
                    /\ trades'[Len(trades')].revenue = position * last
                    /\ capital' = capital + position * last
              /\ position = 0 => trades' = trades /\ capital' = capital
              /\ "final_capital" \in DOMAIN result' =>
                    LET ts == result'.trades
                        costs[k \in 0..Len(ts)] ==
                            IF k = 0 THEN 0 ELSE costs[k - 1] + Get(ts[k], "cost", 0)
                        revenues[k \in 0..Len(ts)] ==
                            IF k = 0 THEN 0 ELSE revenues[k - 1] + Get(ts[k], "revenue", 0)
                    IN  /\ ts = trades'
                        /\ Cardinality({k \in 1..Len(ts) : ts[k].action = "BUY"})
                             = Cardinality({k \in 1..Len(ts) : ts[k].action = "SELL"})
                        /\ result'.final_capital = capital'
                        /\ result'.final_capital
                             = initial_capital - costs[Len(ts)] + revenues[Len(ts)]]_vars

\* a returned result whose last trade is the closing SELL, after an earlier
\* round trip made inside the loop
C4_Witness ==
    /\ bt_pc = "done"
    /\ "final_capital" \in DOMAIN result
    /\ Len(result.trades) = 4
    /\ result.trades[4].action = "SELL"
    /\ result.trades[4].confidence = FinalConfidence
    /\ result.trades[4].date = Len(data)

\* C7: the reported win_rate is the percentage of the buy-then-sell round
\* trips whose sell revenue exceeded the buy cost (0 when all lost, 100 when
\* all gained).
C7_WinRateOfRoundTrips ==
    (/\ bt_pc = "done"
     /\ "performance_metrics" \in DOMAIN result
     /\ "win_rate" \in DOMAIN result.performance_metrics
     /\ Len(result.trades) > 0) =>
        LET ts    == result.trades
            trips == {k \in 1..Len(ts) : ts[k].action = "SELL"}
            wins  == {k \in trips : ts[k].revenue > ts[k - 1].cost}
        IN  result.performance_metrics.win_rate
              = Frac(Cardinality(wins) * 100, Cardinality(trips))

\* C9: the sources are queried in the order Yahoo Finance, Alpha Vantage; a
\* source is queried only while downloading and only after every source
\* before it failed (raised, returned empty data or failed standardization);
\* when a source succeeds its data is returned and no source is queried after
\* it; when all failed, the failure names the error of each source; no source
\* is queried twice.
C9_SourcesInFixedOrder ==
    [][/\ (queried' # queried /\ queried' # << >>) =>
             /\ bt_pc = "download"
             /\ Len(queried') = Len(queried) + 1
             /\ SubSeq(queried', 1, Len(queried)) = queried
             /\ Len(queried') <= 2
             /\ queried'[Len(queried')]
                  = (IF Len(queried') = 1 THEN "Yahoo Finance" ELSE "Alpha Vantage")
             /\ \A j, k \in 1..Len(queried') : j # k => queried'[j] # queried'[k]
             /\ Len(errors) = Len(queried)
             /\ \A k \in 1..Len(queried) :
                   /\ errors[k].source = queried[k]
                   /\ errors[k].error \in {"raises", "empty", "missing_columns"}
       /\ (bt_pc = "download" /\ bt_pc' = "compile") =>
             /\ queried' # queried
             /\ errors' = errors
             /\ Len(data') > 0
       /\ (bt_pc = "download" /\ bt_pc' = "done") =>
             /\ queried' = queried
             /\ result'.status = "failed"
             /\ Len(result'.error.details) = 2
             /\ result'.error.details[1].source = "Yahoo Finance"
             /\ result'.error.details[2].source = "Alpha Vantage"]_vars

\* Alpha Vantage answered after Yahoo Finance had failed
C9_Witness ==
    /\ bt_pc = "compile"
    /\ queried = <<"Yahoo Finance", "Alpha Vantage">>
    /\ Len(errors) = 1
    /\ errors[1].source = "Yahoo Finance"
    /\ Len(data) > 0

\* C10: run_backtest never propagates an exception; it ends either with
\* {error, status: 'failed'} and none of final_capital, trades, equity_curve,
\* or with all of those keys and no 'error' key.
C10_NeverPropagates ==
    /\ bt_pc # "propagated"
    /\ bt_pc = "done" =>
          \/ /\ DOMAIN result = {"error", "status"}
             /\ result.status = "failed"
          \/ /\ {"final_capital", "trades", "equity_curve"} \subseteq DOMAIN result
             /\ "error" \notin DOMAIN result


\* C19: the backtest never calls the strategy function and never records a
\* trade or an equity point for a row whose history prefix has fewer than 20
\* rows.  For data with fewer than 20 rows the result of run_backtest has no
\* trades, an empty equity curve, final_capital = initial_capital,
\* total_return = 0 and performance_metrics = {error: 'No equity curve data'},
\* and evaluate_strategy applied to that result returns status 'failed'.
C19_ShortHistoryIsNotTraded ==
    [][/\ (bt_pc = "loop" /\ bt_i' = bt_i + 1 /\ bt_i' < MinRows) =>
             /\ strategy_result' = NotCalled
             /\ trades' = trades
             /\ equity_curve' = equity_curve
       /\ (bt_pc = "loop" /\ bt_pc' = "done" /\ Len(data) >= 1 /\ Len(data) < MinRows) =>
             /\ {"trades", "equity_curve", "final_capital", "total_return",
                 "performance_metrics"} \subseteq DOMAIN result'
             /\ result'.trades = << >>
             /\ result'.equity_curve = << >>
             /\ result'.final_capital = initial_capital
             /\ result'.total_return = Zero
             /\ result'.performance_metrics = [error |-> "No equity curve data"]
             /\ evaluate_strategy(result').status = "failed"
    ]_vars

\* C20: when the strategy function raises, or returns a result that cannot be
\* read, on a row of the backtest, the row is skipped: cash, position, the
\* trade list and the equity curve are as they were before the row, and the
\* backtest goes on with the next row towards its result.
C20_RaisingRowIsSkipped ==
    [][(/\ bt_pc = "loop"
        /\ bt_i' = bt_i + 1
        /\ "outcome" \in DOMAIN strategy_result'
        /\ strategy_result'.outcome \in {"raises", "unreadable", "exits"}) =>
          /\ capital' = capital
          /\ position' = position
          /\ trades' = trades
          /\ equity_curve' = equity_curve
          /\ bt_pc' = "loop"
          /\ result' = NoResultYet
    ]_vars

\* C23: the recorded trades of a backtest alternate BUY, SELL, BUY, SELL, ...
\* starting with a BUY; inside the loop the held position is a whole number
\* of shares that is never negative, it is positive exactly while the last
\* recorded trade is a BUY, whose shares it then equals (one open position at
\* a time); every SELL sells the number of shares of the BUY before it; and
\* every equity-curve point has portfolio_value = capital + position * price,
\* the point of a row carrying the cash, position and close after that row.
C23_TradesAlternate ==
    [][/\ \A k \in 1..Len(trades') :
             /\ trades'[k].action = (IF k % 2 = 1 THEN "BUY" ELSE "SELL")
             /\ trades'[k].shares \in Nat \ {0}
             /\ k % 2 = 0 => trades'[k].shares = trades'[k - 1].shares
       /\ bt_pc' = "loop" =>
             /\ position' \in Nat
             /\ position' > 0 <=> Len(trades') % 2 = 1
             /\ position' > 0 => position' = trades'[Len(trades')].shares
       /\ \A k \in 1..Len(equity_curve') :
             equity_curve'[k].portfolio_value
                = equity_curve'[k].capital + equity_curve'[k].position * equity_curve'[k].price
       /\ Len(equity_curve') = Len(equity_curve) + 1 =>
             LET point == equity_curve'[Len(equity_curve')]
             IN  /\ point.capital = capital'
                 /\ point.position = position'
                 /\ point.price = data[bt_i']
    ]_vars

\* witness of C23: inside the loop, after a BUY, a SELL and a second BUY,
\* with the second position open
C23_Witness ==
    /\ bt_pc = "loop"
    /\ Len(trades) = 3
    /\ position > 0
    /\ position = trades[3].shares
    /\ Len(equity_curve) = 3

\* C24: during a backtest the cash never becomes negative: a BUY is executed
\* only if the cost of the shares bought does not exceed the cash available
\* at that row.
C24_CashNeverNegative ==
    [][(bt_pc = "loop" /\ bt_i' = bt_i + 1) =>
          /\ capital >= 0 => capital' >= 0
          /\ (Len(trades') = Len(trades) + 1 /\ trades'[Len(trades')].action = "BUY") =>
                trades'[Len(trades')].cost <= capital
    ]_vars

-----------------------------------------------------------------------------
(* Claims about EvaluatorAgent *)

\* C5: for every metrics dictionary (negative values and missing keys
\* included) the evaluation score lies in [0, 100] and is the sum of the five
\* bucket contributions, each of which is at least 0 and at most 30, 25, 20,
\* 15 and 10 points.
C5_ScoreIsBoundedSum ==
    evaluation.status = "success" =>
        LET score == evaluation.evaluation_score
        IN  /\ 0 <= score /\ score <= Points(100)
            /\ score = ReturnPoints(metrics) + SharpePoints(metrics)
                         + DrawdownPoints(metrics) + WinRatePoints(metrics)
                         + TradesPoints(metrics)
            /\ 0 <= ReturnPoints(metrics)   /\ ReturnPoints(metrics)   <= Points(30)
            /\ 0 <= SharpePoints(metrics)   /\ SharpePoints(metrics)   <= Points(25)
            /\ 0 <= DrawdownPoints(metrics) /\ DrawdownPoints(metrics) <= Points(20)
            /\ 0 <= WinRatePoints(metrics)  /\ WinRatePoints(metrics)  <= Points(15)
            /\ 0 <= TradesPoints(metrics)   /\ TradesPoints(metrics)   <= Points(10)

\* a loss of 15% and a negative Sharpe ratio, win_rate missing: the loss
\* buckets are floored at 0 and the score comes from the other buckets
C5_Witness ==
    /\ evaluation.status = "success"
    /\ "win_rate" \notin DOMAIN metrics
    /\ Get(metrics, "total_return", 0) = -1500
    /\ Get(metrics, "sharpe_ratio", 0) = -100
    /\ evaluation.evaluation_score > 0

\* C6: viability is APPROVED only if the five minimum criteria hold and the
\* score is at least 70; with the criteria met a score in [60, 70) gives
\* CONDITIONAL and a score below 60 REJECTED; a failed criterion gives
\* REJECTED.  The decision is DEPLOY exactly when APPROVED with score >= 80,
\* DEPLOY WITH MONITORING exactly when APPROVED with score in [70, 80),
\* ITERATE exactly when CONDITIONAL, REJECT otherwise.
C6_ViabilityAndDecision ==
    evaluation.status = "success" =>
        LET score       == evaluation.evaluation_score
            criteria    == /\ Get(metrics, "total_return", 0) >= 500
                           /\ Get(metrics, "sharpe_ratio", 0) >= 50
                           /\ Get(metrics, "max_drawdown", 0) >= -2000
                           /\ Get(metrics, "win_rate", 0) >= 4000
                           /\ Get(metrics, "total_trades", 0) >= 500
            approved    == evaluation.viability \in {"APPROVED - Excellent performance",
                                                     "APPROVED - Good performance"}
            conditional == evaluation.viability = "CONDITIONAL - Acceptable with improvements"
            rejected    == evaluation.viability \in
                               {"REJECTED - Insufficient returns",
                                "REJECTED - Poor risk-adjusted returns",
                                "REJECTED - Excessive drawdown",
                                "REJECTED - Low win rate",
                                "REJECTED - Insufficient trading activity",
                                "REJECTED - Poor overall performance"}
            decision    == evaluation.decision
        IN  /\ approved => criteria /\ score >= Points(70)
            /\ (criteria /\ score >= Points(60) /\ score < Points(70)) => conditional
            /\ (criteria /\ score < Points(60)) => rejected
            /\ ~criteria => rejected
            /\ decision = "DEPLOY - Strategy ready for live trading"
                  <=> (approved /\ score >= Points(80))
            /\ decision = "DEPLOY WITH MONITORING - Deploy but closely monitor performance"
                  <=> (approved /\ score >= Points(70) /\ score < Points(80))
            /\ decision = "ITERATE - Improve strategy before deployment" <=> conditional
            /\ decision = "REJECT - Strategy needs significant improvements"
                  <=> (~approved /\ ~conditional)

\* every criterion met with a score in [60, 70): CONDITIONAL and ITERATE
C6_Witness ==
    /\ evaluation.status = "success"
    /\ evaluation.viability = "CONDITIONAL - Acceptable with improvements"
    /\ evaluation.decision = "ITERATE - Improve strategy before deployment"
    /\ evaluation.evaluation_score >= Points(60)

\* C25: the evaluation score never goes down when one metric goes up and the
\* other four stay as they are: for the metrics that were scored and every
\* higher value of one of them, bucket boundaries and the branches below the
\* lowest bucket included, the score of the raised metrics is at least the
\* score that evaluate_strategy returned.
C25_ScoreIsMonotone ==
    evaluation.status = "success" =>
        \A k \in DOMAIN metrics :
            \A v \in MetricValues[k] :
                v >= metrics[k] =>
                    evaluate_strategy([performance_metrics |->
                                          [metrics EXCEPT ![k] = v]]).evaluation_score
                       >= evaluation.evaluation_score

\* witness of C25: a scored dictionary in which every metric lies in the
\* branch below its lowest bucket and three of them just under its boundary
C25_Witness ==
    /\ evaluation.status = "success"
    /\ DOMAIN metrics = {"total_return", "sharpe_ratio", "max_drawdown", "win_rate",
                         "total_trades"}
    /\ metrics.total_return = -550
    /\ metrics.sharpe_ratio = -25
    /\ metrics.max_drawdown = -2001
    /\ metrics.win_rate = 3999
    /\ metrics.total_trades = 499
    /\ evaluation.evaluation_score > 0

-----------------------------------------------------------------------------
(* Claims about the backend handlers *)

\* C8: a request that addresses a row that does not exist is answered with
\* status 404 and a '... not found' detail; status 500 is produced only for
\* other failures.
C8_MissingResourceIs404 ==
    /\ (http.handler \in {"get_strategy", "update_strategy", "delete_strategy",
                          "activate_strategy", "deactivate_strategy", "execute_trade",
                          "get_trade", "get_portfolio", "get_portfolio_status",
                          "get_portfolio_performance", "update_portfolio_value"}
        /\ ~http.found /\ http.detail # "database error") =>
           /\ http.status = 404
           /\ http.detail \in {"Strategy not found", "Trade not found", "Portfolio not found"}
    /\ http.status = 500 =>
           http.detail \in {"database error", "float division by zero"}

\* C12: the trades table changes only by execute_trade appending one row, and
\* only when a strategy with the request's strategy_id exists at that moment;
\* a request for a missing strategy, or one whose commit fails, leaves the
\* tables as they were.  The appended row has trade_value = quantity * price,
\* with the request's price if one was given and otherwise the mock price of
\* the symbol (150 for AAPL, 100 for an unknown symbol).
C12_TradeOnlyForExistingStrategy ==
    [][/\ db'.trades # db.trades =>
             /\ http'.handler = "execute_trade"
             /\ http'.status = 200
             /\ http'.trade.strategy_id \in DOMAIN db.strategies
             /\ Len(db'.trades) = Len(db.trades) + 1
             /\ SubSeq(db'.trades, 1, Len(db.trades)) = db.trades
             /\ LET row == db'.trades[Len(db'.trades)]
                    expected == IF http'.trade.price # 0 THEN http'.trade.price
                                ELSE IF http'.trade.symbol = "AAPL" THEN 150 ELSE 100
                IN  /\ row.strategy_id = http'.trade.strategy_id
                    /\ row.symbol = http'.trade.symbol
                    /\ row.quantity = http'.trade.quantity
                    /\ row.price = expected
                    /\ row.trade_value = row.quantity * expected
       /\ (http'.handler = "execute_trade" /\ http' # http
             /\ (http'.status # 200
                   \/ http'.trade.strategy_id \notin DOMAIN db.strategies)) =>
             /\ db' = db
             /\ http'.status # 200]_vars

\* a trade for an unknown symbol without a price was persisted at 100, and a
\* later request for a strategy that does not exist was refused
C12_Witness ==
    /\ http.handler = "execute_trade"
    /\ ~http.found
    /\ http.status # 200
    /\ Len(db.trades) = 1
    /\ db.trades[1].symbol = "XYZ"
    /\ db.trades[1].price = 100
    /\ db.trades[1].trade_value = 1000

\* C15: for every portfolio created with positive cash: max_value is at least
\* the initial cash and at least total_value, current_drawdown is
\* (max_value - total_value) / max_value * 100 and lies in [0, 100); a
\* successful update_portfolio_value sets max_value to the larger of the old
\* max_value and the new value (so it is the maximum of the cash and every
\* value set, and never decreases) and daily_pnl to the new value minus the
\* value before the update; nothing else changes a portfolio.
C15_PortfolioDrawdownInvariant ==
    [][\A id \in DOMAIN db'.portfolios :
          LET after == db'.portfolios[id]
          IN  after.cash > 0 =>
                /\ after.max_value >= after.cash
                /\ after.max_value >= after.total_value
                /\ after.current_drawdown
                     = Frac((after.max_value - after.total_value) * 100, after.max_value)
                /\ after.current_drawdown.num >= 0
                /\ after.current_drawdown.num < 100 * after.current_drawdown.den
                /\ (id \in DOMAIN db.portfolios /\ after # db.portfolios[id]) =>
                      LET before == db.portfolios[id]
                      IN  /\ http'.handler = "update_portfolio_value"
                          /\ http'.status = 200
                          /\ after.total_value \in NewValues
                          /\ after.max_value
                               = (IF before.max_value >= after.total_value
                                  THEN before.max_value ELSE after.total_value)
                          /\ after.max_value >= before.max_value
                          /\ after.daily_pnl = after.total_value - before.total_value
                          /\ after.cash = before.cash
                /\ id \notin DOMAIN db.portfolios =>
                      /\ after.total_value = after.cash
                      /\ after.max_value = after.cash
                      /\ after.daily_pnl = 0]_vars

\* a portfolio of 100000 raised to 120000 and then dropped to 80000:
\* max_value 120000, drawdown 100/3 %, daily_pnl -40000
C15_Witness ==
    /\ http.handler = "update_portfolio_value"
    /\ http.status = 200
    /\ \E id \in DOMAIN db.portfolios :
          /\ db.portfolios[id].cash = 100000
          /\ db.portfolios[id].max_value = 120000
          /\ db.portfolios[id].total_value = 80000
          /\ db.portfolios[id].daily_pnl = -40000
          /\ db.portfolios[id].current_drawdown = [num |-> 100, den |-> 3]

-----------------------------------------------------------------------------
(* Claims about StrategyGeneratorAgent *)

\* C11: generate_strategy always returns a text; without an AI client, and
\* when the AI call raises (or answers without content), the text is the
\* fallback template for the call's arguments; two calls that return the
\* fallback for the same symbol, indicators and risk level return the same
\* text, whatever their capital.
C11_FallbackIsDeterministic ==
    LET fellback(g) == g.ai \in {"not called", "raises", "no_content"}
    IN  /\ generated # NotGenerated =>
              /\ generated.status = "returned"
              /\ ~strategy_generator.use_openai => generated.ai = "not called"
              /\ fellback(generated) =>
                    /\ generated.text.template = "fallback"
                    /\ generated.text.symbol = generated.symbol
                    /\ generated.text.indicators = generated.indicators
              /\ ~fellback(generated) => generated.text.template = "ai"
        /\ (/\ generated_before # NotGenerated
            /\ fellback(generated) /\ fellback(generated_before)
            /\ generated.symbol = generated_before.symbol
            /\ generated.indicators = generated_before.indicators
            /\ generated.risk_level = generated_before.risk_level) =>
               generated.text = generated_before.text

\* with an AI client: the call raised twice for the same symbol, indicators
\* and risk level but different capital, and both calls returned the fallback
C11_Witness ==
    /\ strategy_generator.use_openai
    /\ generated_before # NotGenerated
    /\ generated.ai = "raises"
    /\ generated_before.ai = "no_content"
    /\ generated.symbol = generated_before.symbol
    /\ generated.indicators = generated_before.indicators
    /\ generated.risk_level = generated_before.risk_level
    /\ generated.capital # generated_before.capital
    /\ generated.text.template = "fallback"

-----------------------------------------------------------------------------
(* Claims about concurrent requests *)

-----------------------------------------------------------------------------
(* Claims about StrategyService *)

\* the shares of a symbol that a portfolio holds
HeldQuantity(portfolio, symbol) ==
    IF symbol \in DOMAIN portfolio.positions THEN portfolio.positions[symbol].quantity ELSE 0

\* C16: over every sequence of execute_trade calls with positive quantities
\* the cash of StrategyService is never negative; a BUY whose trade value
\* exceeds the cash is answered 'failed' / 'Insufficient cash' and leaves
\* cash, positions and trade_history as they were; a BUY answered 'success'
\* lowers the cash by exactly quantity * price and raises the quantity held
\* of the symbol by exactly quantity.
C16_CashNeverNegative ==
    [][op' = "execute_trade" =>
        LET pf == strategy_service.portfolio
            sym == request'.symbol
            q == request'.quantity
            trade_value == q * ServiceMarketPrice(sym)
        IN  /\ strategy_service'.portfolio.cash >= 0
            /\ (request'.order_type = "BUY" /\ trade_value > pf.cash) =>
                  /\ trade_result'.status = "failed"
                  /\ trade_result'.reason = "Insufficient cash"
                  /\ strategy_service'.portfolio.cash = pf.cash
                  /\ strategy_service'.portfolio.positions = pf.positions
                  /\ strategy_service'.trade_history = strategy_service.trade_history
            /\ (request'.order_type = "BUY" /\ trade_result'.status = "success") =>
                  /\ strategy_service'.portfolio.cash = pf.cash - trade_value
                  /\ HeldQuantity(strategy_service'.portfolio, sym) = HeldQuantity(pf, sym) + q
    ]_vars

\* witness of C16: a BUY refused for lack of cash after earlier BUYs were
\* accepted and had used most of the cash
C16_Witness ==
    /\ op = "execute_trade"
    /\ request.order_type = "BUY"
    /\ request.quantity = 10
    /\ trade_result.status = "failed"
    /\ trade_result.reason = "Insufficient cash"
    /\ Len(strategy_service.trade_history) = 3
    /\ strategy_service.portfolio.cash = 1000

\* C17: a SELL of a symbol that is not held, or of more shares than are
\* held, is answered 'failed' / 'Insufficient shares to sell' and changes
\* nothing; over every sequence of execute_trade calls with positive
\* quantities every entry of portfolio['positions'] has a quantity above
\* zero, a position sold down to zero being removed.
C17_NoShortSelling ==
    [][op' = "execute_trade" =>
        LET pf == strategy_service.portfolio
            sym == request'.symbol
            q == request'.quantity
        IN  /\ \A s \in DOMAIN strategy_service'.portfolio.positions :
                  strategy_service'.portfolio.positions[s].quantity > 0
            /\ (request'.order_type = "SELL" /\ HeldQuantity(pf, sym) < q) =>
                  /\ trade_result'.status = "failed"
                  /\ trade_result'.reason = "Insufficient shares to sell"
                  /\ strategy_service' = strategy_service
            /\ (request'.order_type = "SELL" /\ HeldQuantity(pf, sym) = q) =>
                  /\ trade_result'.status = "success"
                  /\ sym \notin DOMAIN strategy_service'.portfolio.positions
    ]_vars

\* witness of C17: a SELL of more shares than are held of a held symbol was
\* refused, after another position had been sold down to zero and removed
C17_Witness ==
    /\ op = "execute_trade"
    /\ request.order_type = "SELL"
    /\ request.symbol = "AAPL"
    /\ request.quantity = 66
    /\ trade_result.status = "failed"
    /\ trade_result.reason = "Insufficient shares to sell"
    /\ DOMAIN strategy_service.portfolio.positions = {"AAPL"}
    /\ strategy_service.portfolio.positions["AAPL"].quantity = 10
    /\ Len(strategy_service.trade_history) = 3

-----------------------------------------------------------------------------
(* Claims about market data *)

\* C22: get_market_data consults the database first: if a stored bar of the
\* symbol lies in the requested range it returns the stored bars, does not
\* call the client and inserts nothing; otherwise it fetches from the client,
\* inserts every fetched bar and returns exactly those.  Repeating the same
\* request at once returns the same bars and adds no rows, and the response
\* holds a bar for every day of the requested range.
C22_DatabaseFirstWholeRange ==
    [][market'.status = 200 =>
        LET stored == stored_bars(zerodha_data, market'.symbol, market'.start_date,
                                  market'.end_date)
        IN  /\ stored # << >> =>
                  /\ market'.data = stored
                  /\ market'.client_calls = 0
                  /\ zerodha_data' = zerodha_data
            /\ stored = << >> =>
                  /\ market'.client_calls = 1
                  /\ zerodha_data' = zerodha_data \o market'.data
            /\ (/\ market.status = 200
                /\ market.symbol = market'.symbol
                /\ market.start_date = market'.start_date
                /\ market.end_date = market'.end_date) =>
                  /\ market'.data = market.data
                  /\ zerodha_data' = zerodha_data
            /\ \A day \in market'.start_date..market'.end_date :
                  \E k \in 1..Len(market'.data) : market'.data[k].day = day
    ]_vars

====
